---- MODULE Spec2Model ----
(***************************************************************************)
(* Task pipeline engine of worker_ai: the sync runner (sync.py: fetch and  *)
(* resync of one task against a source table), the AI runner (ai.py: one   *)
(* prompt / response / reconciliation cycle) and the progress accountants  *)
(* (lib/task.py), over one task of the local store.                        *)
(*                                                                         *)
(* Every action is one statement that reads (a query of the source or of   *)
(* the local store, whose answer the invocation keeps in its variables) or *)
(* one committed transaction of the local store, so every state of the     *)
(* model is a committed state.  The append-only description column and the *)
(* fetched_at timestamp are written but never read by the code and are     *)
(* left out of the state; processed_at is kept, because an UPDATE that     *)
(* writes the values a row already has changes no row.                     *)
(***************************************************************************)
EXTENDS Integers, Sequences, FiniteSets, TLC

\* ------------------------------------------------------------------ bounds
\* Source ids range over 1..MaxId.
MaxId == 3
\* BATCH_SIZE of the configuration ranges over 1..MaxBatch.
MaxBatch == 3
\* At most MaxEvents events come from outside the code: failures (a query
\* or a gateway call that raises, a response that does not validate), changes
\* of the source table, resync requests of the upstream intake.
MaxEvents == 2

\* A task_item table of the pending-items query holds up to MaxRows rows, and
\* its chunk_size and max_items range over 1..MaxChunk.
MaxRows == 5
MaxChunk == 3

\* NOW() of the local store counts seconds 1..MaxTime.
MaxTime == 2

\* An AI invocation starts while error_log holds fewer than MaxLog messages.
MaxLog == 2

Ids == 1..MaxId
BatchSizes == 1..MaxBatch

\* ------------------------------------------------------------------ values
\* Python None / SQL NULL where an integer is expected, and '' as an identifier.
None == -1
EmptyId == -2
\* A key that a response element does not have (dict.get falls to its default).
Missing == -3
\* Texts are sequences of characters.  NullText is SQL NULL / None, NoRow marks
\* an id with no row in the source table, EmptyStr is ''.
NullText == <<"NULL">>
NoRow == <<"NOROW">>
EmptyStr == <<>>
TextA == <<"a">>
TextAB == <<"a", "b">>
SrcTexts == {NullText, TextA, TextAB}

SyncProcs == {1, 2}

VARIABLES
    source,      \* the source table: id -> text value, NoRow when absent
    batch_size,  \* cfg['BATCH_SIZE']
    task,        \* the task row of the local store
    task_item,   \* the task_item rows of the task, indexed by id_task_item
    sync,        \* the sync invocations: position and local variables
    ai,          \* the AI invocation: position and local variables
    env          \* the events from outside the code so far

vars == <<source, batch_size, task, task_item, sync, ai, env>>

\* ------------------------------------------------------- pure helpers
Min(S) == CHOOSE x \in S : \A y \in S : x <= y
Max(S) == CHOOSE x \in S : \A y \in S : x >= y

RECURSIVE SortedSeq(_)
SortedSeq(S) == IF S = {} THEN <<>> ELSE <<Min(S)>> \o SortedSeq(S \ {Min(S)})

\* int(value or 0)
IntOr0(v) == IF v = None THEN 0 ELSE v

\* text_value if text_value is not None else ''
NormText(t) == IF t = NullText THEN EmptyStr ELSE t

\* calculate_hash: hexdigest of the text under the task's hash method; a digest
\* is modelled as the tagged text (injective, never the text itself).
calculate_hash(text) == <<"sha256">> \o text

\* ------------------------------------------------------- source queries
SourceIds(src) == {r \in DOMAIN src : src[r] # NoRow}

\* SELECT COUNT(*) FROM table
CountQuery(src) == Cardinality(SourceIds(src))

\* SELECT MAX(id) FROM table; int(... or 0)
MaxQuery(src) == IF SourceIds(src) = {} THEN 0 ELSE Max(SourceIds(src))

\* build_fetch_query with WHERE id >= start: the row at the cursor is read again.
build_fetch_query_inclusive(src, n, start_id) ==
    LET ids == SortedSeq({r \in SourceIds(src) : r >= start_id})
        k == IF Len(ids) < n THEN Len(ids) ELSE n
    IN [j \in 1..k |-> [remote_id |-> ids[j], text_value |-> src[ids[j]]]]

\* build_fetch_query + execute + rows_to_dicts: WHERE id > start ORDER BY id ASC LIMIT n
build_fetch_query(src, n, start_id) ==
    LET ids == SortedSeq({r \in SourceIds(src) : r > start_id})
        k == IF Len(ids) < n THEN Len(ids) ELSE n
    IN [j \in 1..k |-> [remote_id |-> ids[j], text_value |-> src[ids[j]]]]

\* ------------------------------------------------------- local store writes
\* id_task of the task of the model: the row get_next_task returns and every
\* statement of the invocation names in its WHERE id_task = %s.
IdTask == 1

NewItem(remote_id, text, hash) ==
    [id_task |-> IdTask,
     remote_id |-> remote_id, text_original |-> text, original_hash |-> hash,
     status |-> "pending", text_corrected |-> NullText, similarity_score |-> None,
     tokens_input |-> None, tokens_output |-> None,
     ai_model |-> "NULL", finish_reason |-> "NULL", processed_at |-> None]

\* UpsertRow whose duplicate-key branch also sets the row back to pending.
UpsertRowReset(items, v) ==
    IF \E k \in DOMAIN items : items[k].remote_id = v.remote_id
    THEN [k \in DOMAIN items |->
            IF items[k].remote_id = v.remote_id
            THEN NewItem(v.remote_id, v.text_original, v.original_hash)
            ELSE items[k]]
    ELSE Append(items, NewItem(v.remote_id, v.text_original, v.original_hash))

\* UpsertRow as a plain INSERT that no key stops: every row inserts.
UpsertRowNoKey(items, v) ==
    Append(items, NewItem(v.remote_id, v.text_original, v.original_hash))

\* The rows of the table that hold the unique key (id_task, remote_id) of a
\* row of values_to_insert.  The key is part of the table definition, which is
\* not among the sources; the data model of the specification states it
\* ("a uniqueness constraint on (id_task, remote_id)").
DuplicateKey(items, v) ==
    {k \in DOMAIN items : items[k].id_task = IdTask /\ items[k].remote_id = v.remote_id}

\* INSERT ... ON DUPLICATE KEY UPDATE text_original, original_hash (lines
\* 788-794): one row of values_to_insert; the UPDATE part runs for a row that
\* holds the key, the INSERT part when none does.
UpsertRow(items, v) ==
    IF DuplicateKey(items, v) # {}
    THEN [k \in DOMAIN items |->
            IF k \in DuplicateKey(items, v)
            THEN [items[k] EXCEPT !.text_original = v.text_original,
                                  !.original_hash = v.original_hash]
            ELSE items[k]]
    ELSE Append(items, NewItem(v.remote_id, v.text_original, v.original_hash))

RECURSIVE UpsertMany(_, _)
UpsertMany(items, values) ==
    IF values = <<>> THEN items
    ELSE UpsertMany(UpsertRow(items, Head(values)), Tail(values))

\* values_to_insert that leaves out the last row of the batch.
ValuesToInsertShort(rows) ==
    [j \in 1..(Len(rows) - 1) |->
        [remote_id |-> rows[j].remote_id,
         text_original |-> NormText(rows[j].text_value),
         original_hash |-> calculate_hash(NormText(rows[j].text_value))]]

\* values_to_insert of one batch (fetch_remote_batch, lines 772-781)
ValuesToInsert(rows) ==
    [j \in DOMAIN rows |->
        [remote_id |-> rows[j].remote_id,
         text_original |-> NormText(rows[j].text_value),
         original_hash |-> calculate_hash(NormText(rows[j].text_value))]]

\* append_task_error: error_log grows by one message
append_task_error(t, message) == [t EXCEPT !.error_log = Append(@, message)]

\* Rollback that is missing: the uncommitted writes are committed with the
\* error_log statement.
RollbackMissing(committed, dirty) == dirty

\* conn_local.rollback(): the committed store stands, the uncommitted writes go
Rollback(committed, dirty) == committed

\* ------------------------------------------------------- initial state
\* What update_task_sync_progress has read of the task row (lib/task.py lines
\* 116-124) before it has read anything.
NoTaskRow ==
    [records_fetched |-> 0, records_total |-> 0, records_processed |-> 0,
     status |-> "none"]

\* The local variables of an invocation of sync.py: what its statements have
\* read so far and not written yet.
IdleSync ==
    [pc |-> "idle", stage |-> "none", marker_id |-> 0, snap_max |-> 0,
     current_marker |-> 0, marker_max_id |-> 0, total_count |-> 0,
     row_dicts |-> <<>>, updates |-> <<>>, local_total |-> 0,
     task_row |-> NoTaskRow]

IdleAi == [pc |-> "idle", table |-> <<>>]

\* A task as the upstream intake creates it, nothing fetched yet.
InitWith(sources, sizes, events) ==
    /\ source \in sources
    /\ batch_size \in sizes
    /\ task = [status |-> "new", sync_stage |-> "new", marker_id |-> 0,
               marker_max_id |-> 0, records_total |-> 0, records_fetched |-> 0,
               records_updated |-> 0, records_processed |-> 0,
               sync_progress |-> 0, ai_progress |-> 0, error_log |-> <<>>]
    /\ task_item = <<>>
    /\ sync = [i \in SyncProcs |-> IdleSync]
    /\ ai = IdleAi
    /\ env = [events |-> events]

Init == InitWith([Ids -> {NoRow, TextA}], BatchSizes, 0)

\* ------------------------------------------------------- task selection
SyncStatuses == {"new", "sync", "resync"}

\* get_next_task: SELECT * FROM task WHERE status IN ('new','sync','resync')
\* ORDER BY id_task LIMIT 1 -- a plain read; the row or nothing.
get_next_task(t) == IF t.status \in SyncStatuses THEN <<t>> ELSE <<>>

\* sync.py main, lines 35-63 and 86; resynch_remote_batch lines 560-570.
\* The invocation keeps the row it read (the dict `task`) until it ends.
SyncSelect(i) ==
    /\ sync[i].pc = "idle"
    /\ get_next_task(task) # <<>>
    /\ LET row == Head(get_next_task(task))
           stage == row.sync_stage
           snap == [IdleSync EXCEPT !.stage = stage,
                                    !.marker_id = IntOr0(row.marker_id),
                                    !.snap_max = IntOr0(row.marker_max_id)]
           cursor == IF snap.marker_id >= snap.snap_max THEN 0 ELSE snap.marker_id
       IN sync' = [sync EXCEPT ![i] =
                CASE stage \in {"new", "fetch"} -> [snap EXCEPT !.pc = "fetch_start"]
                  [] stage = "resynch" ->
                        [snap EXCEPT !.pc = IF cursor < snap.snap_max
                                            THEN "resynch_loop" ELSE "resynch_final",
                                     !.current_marker = cursor,
                                     !.marker_max_id = snap.snap_max]
                  [] OTHER -> IdleSync]
    /\ UNCHANGED <<source, batch_size, task, task_item, ai, env>>

\* ------------------------------------------------------- fetch engine
\* Every statement of fetch_remote_batch is a round trip of its own: a step of
\* the model is one query of the source, one query of the local store or one
\* commit of the local store, and what a query returned is kept in the local
\* variables of the invocation until the statement that uses it.

\* fetch_remote_batch, lines 704-729: the probe of the id column and
\* SELECT COUNT(*) of the source.  (The probe reads the first row to see that
\* it has an id; it keeps nothing of it.)
FetchCount(i) ==
    /\ sync[i].pc = "fetch_start"
    /\ sync' = [sync EXCEPT ![i].pc = "fetch_max",
                            ![i].total_count = CountQuery(source)]
    /\ UNCHANGED <<source, batch_size, task, task_item, ai, env>>

\* Lines 731-735: SELECT MAX(id) of the source.
FetchMax(i) ==
    /\ sync[i].pc = "fetch_max"
    /\ sync' = [sync EXCEPT ![i].pc = "fetch_mark",
                            ![i].marker_max_id = MaxQuery(source)]
    /\ UNCHANGED <<source, batch_size, task, task_item, ai, env>>

\* update_task_stage_and_markers that falls back to the stage new when the
\* source has no row.
update_task_stage_and_markers_reset(t, marker_max_id, stage, records_total) ==
    [t EXCEPT !.marker_max_id = marker_max_id,
              !.sync_stage = IF records_total = 0 THEN "new" ELSE stage,
              !.records_total = IF records_total = None THEN @ ELSE records_total]

\* update_task_stage_and_markers
update_task_stage_and_markers(t, marker_max_id, stage, records_total) ==
    [t EXCEPT !.marker_max_id = marker_max_id, !.sync_stage = stage,
              !.records_total = IF records_total = None THEN @ ELSE records_total]

\* Lines 737-750: stage = fetch with the ceiling and the count as read, commit.
FetchStart(i) ==
    /\ sync[i].pc = "fetch_mark"
    /\ LET total_count == sync[i].total_count
           marker_max_id == sync[i].marker_max_id
           marker_id == sync[i].marker_id
           no_new_records == marker_max_id <= marker_id
       IN /\ task' = update_task_stage_and_markers(task, marker_max_id, "fetch", total_count)
          /\ sync' = [sync EXCEPT ![i].pc = IF no_new_records THEN "fetch_final"
                                                             ELSE "fetch_loop",
                                  ![i].current_marker = marker_id]
    /\ UNCHANGED <<source, batch_size, task_item, ai, env>>

\* BatchWrites that takes the marker from the first row of the batch.
BatchWritesFirstId(store, rows, upto) ==
    [task |-> IF upto = "task"
              THEN [store.task EXCEPT !.records_fetched = @ + Len(rows),
                                      !.marker_id = rows[1].remote_id]
              ELSE store.task,
     task_item |-> IF upto \in {"upsert", "task"}
                   THEN UpsertMany(store.task_item, ValuesToInsert(rows))
                   ELSE store.task_item]

\* BatchWrites with the task row updated and committed before the upsert runs.
BatchWritesTaskFirst(store, rows, upto) ==
    [task |-> IF upto = "task"
              THEN [store.task EXCEPT !.records_fetched = @ + Len(rows),
                                      !.marker_id = rows[Len(rows)].remote_id]
              ELSE store.task,
     task_item |-> store.task_item]

\* The writes of one batch transaction (lines 787-812), in statement order:
\* the upsert, then records_fetched/marker_id.  `upto` names the last
\* statement that ran ("none", "upsert", "task").
BatchWrites(store, rows, upto) ==
    LET values == ValuesToInsert(rows)
        last_remote_id == rows[Len(rows)].remote_id
        items1 == IF upto \in {"upsert", "task"}
                  THEN UpsertMany(store.task_item, values) ELSE store.task_item
        task1 == IF upto = "task"
                 THEN [store.task EXCEPT !.records_fetched = @ + Len(values),
                                         !.marker_id = last_remote_id]
                 ELSE store.task
    IN [task |-> task1, task_item |-> items1]

\* Lines 751-770 of one iteration of the while loop: the batch query of the
\* source; an empty answer ends the loop.
FetchRead(i) ==
    /\ sync[i].pc = "fetch_loop"
    /\ LET row_dicts == build_fetch_query(source, batch_size, sync[i].current_marker)
       IN sync' = [sync EXCEPT ![i].pc = IF row_dicts = <<>> THEN "fetch_final"
                                                          ELSE "fetch_write",
                               ![i].row_dicts = row_dicts]
    /\ UNCHANGED <<source, batch_size, task, task_item, ai, env>>

\* Lines 772-817 of the iteration: the transaction that upserts the rows the
\* query returned and moves records_fetched and marker_id.
FetchBatch(i) ==
    /\ sync[i].pc = "fetch_write"
    /\ LET rows == sync[i].row_dicts
           after == BatchWrites([task |-> task, task_item |-> task_item],
                                rows, "task")
           last_remote_id == rows[Len(rows)].remote_id
       IN /\ task' = after.task
          /\ task_item' = after.task_item
          /\ sync' = [sync EXCEPT
                ![i].current_marker = last_remote_id,
                ![i].row_dicts = <<>>,
                ![i].pc = IF Len(rows) < batch_size
                             \/ ~(last_remote_id < sync[i].marker_max_id)
                          THEN "fetch_final" ELSE "fetch_loop"]
    /\ UNCHANGED <<source, batch_size, ai, env>>

\* The positions inside the try block of fetch_remote_batch (lines 704-836).
FetchPcs ==
    {"fetch_start", "fetch_max", "fetch_mark", "fetch_loop", "fetch_write",
     "fetch_final", "fetch_done"}

\* An exception inside the try block (lines 837-842): a query of the source,
\* the upsert, a task update or the recount raises; rollback, error_log in its
\* own commit, re-raise.  Only the batch transaction has uncommitted writes to
\* roll back.  sync.py lines 66-71 catch it: the invocation ends without the
\* progress update.
FetchFail(i) ==
    /\ sync[i].pc \in FetchPcs
    /\ env.events < MaxEvents
    /\ \E upto \in {"none", "upsert", "task"} :
         /\ upto # "none" => sync[i].pc = "fetch_write"
         /\ LET committed == [task |-> task, task_item |-> task_item]
                dirty == IF sync[i].pc = "fetch_write"
                         THEN BatchWrites(committed, sync[i].row_dicts, upto)
                         ELSE committed
                after == Rollback(committed, dirty)
            IN /\ task' = append_task_error(after.task, "fetch")
               /\ task_item' = after.task_item
    /\ sync' = [sync EXCEPT ![i] = IdleSync]
    /\ env' = [env EXCEPT !.events = @ + 1]
    /\ UNCHANGED <<source, batch_size, ai>>

\* Lines 819-826: SELECT COUNT(*) of the task's rows of task_item.
FetchRecount(i) ==
    /\ sync[i].pc = "fetch_final"
    /\ sync' = [sync EXCEPT ![i].pc = "fetch_done",
                            ![i].local_total = Len(task_item)]
    /\ UNCHANGED <<source, batch_size, task, task_item, ai, env>>

\* Lines 828-836: records_fetched = the recount, records_total = the count of
\* the probe, sync_stage = done when they agree; commit.
FetchFinal(i) ==
    /\ sync[i].pc = "fetch_done"
    /\ LET local_total == sync[i].local_total
           total_count == sync[i].total_count
       IN task' = [task EXCEPT !.records_fetched = local_total,
                               !.records_total = total_count,
                               !.sync_stage = IF local_total = total_count
                                              THEN "done" ELSE @]
    /\ sync' = [sync EXCEPT ![i].pc = "progress"]
    /\ UNCHANGED <<source, batch_size, task_item, ai, env>>

\* round(num / den * 100, 2) in hundredths of a percent (no ties arise for
\* denominators below 32).
Percent(num, den) == (2 * 10000 * num + den) \div (2 * den)

\* What update_task_sync_progress reads of the task row (lines 116-124).
ReadTaskRow(t) ==
    [records_fetched |-> IntOr0(t.records_fetched),
     records_total |-> IntOr0(t.records_total),
     records_processed |-> IntOr0(t.records_processed),
     status |-> t.status]

\* update_task_sync_progress that hands the task over as soon as the fetched
\* count has reached records_total (>= for ==).
update_task_sync_progress_at_least(t, task_row) ==
    LET status1 == IF task_row.records_total # 0
                      /\ task_row.records_fetched >= task_row.records_total
                   THEN "ai" ELSE task_row.status
        target_status == IF task_row.records_total # 0
                            /\ task_row.records_processed = task_row.records_total
                         THEN "export" ELSE status1
    IN [t EXCEPT !.sync_progress = IF task_row.records_total # 0
                                   THEN Percent(task_row.records_fetched,
                                                task_row.records_total) ELSE 0,
                 !.status = IF target_status # task_row.status
                            THEN target_status ELSE @]

\* update_task_sync_progress (lib/task.py lines 126-147): from the row as read
\* (task_row), the UPDATE of the row as it is now (t); status is written only
\* when the target differs from the status read.
update_task_sync_progress(t, task_row) ==
    LET records_fetched == task_row.records_fetched
        records_total == task_row.records_total
        records_processed == task_row.records_processed
        current_status == task_row.status
        sync_progress == IF records_total # 0
                         THEN Percent(records_fetched, records_total) ELSE 0
        status1 == IF records_total # 0 /\ records_fetched = records_total
                   THEN "ai" ELSE current_status
        target_status == IF records_total # 0 /\ records_processed = records_total
                         THEN "export" ELSE status1
    IN [t EXCEPT !.sync_progress = sync_progress,
                 !.status = IF target_status # current_status
                            THEN target_status ELSE @]

\* sync.py lines 72-73 and 96-97, lib/task.py lines 108-124: the else branch
\* of the try; the accountant reads the counters and the status of the task.
SyncProgressRead(i) ==
    /\ sync[i].pc = "progress"
    /\ sync' = [sync EXCEPT ![i].pc = "progress_write",
                            ![i].task_row = ReadTaskRow(task)]
    /\ UNCHANGED <<source, batch_size, task, task_item, ai, env>>

\* lib/task.py lines 126-147: the UPDATE computed from what was read, commit.
SyncProgress(i) ==
    /\ sync[i].pc = "progress_write"
    /\ task' = update_task_sync_progress(task, sync[i].task_row)
    /\ sync' = [sync EXCEPT ![i] = IdleSync]
    /\ UNCHANGED <<source, batch_size, task_item, ai, env>>

\* ------------------------------------------------------- resync engine
\* local_map.get(remote_id), then '' when absent or NULL (lines 599-607)
LocalText(items, remote_id) ==
    IF \E k \in DOMAIN items : items[k].remote_id = remote_id
    THEN NormText(items[CHOOSE k \in DOMAIN items :
                            items[k].remote_id = remote_id].text_original)
    ELSE EmptyStr

\* The updates list of one resync batch (lines 601-610): the rows whose source
\* text differs from the local text.
ResyncUpdates(items, rows) ==
    SelectSeq([j \in DOMAIN rows |->
                 [remote_id |-> rows[j].remote_id,
                  text_original |-> NormText(rows[j].text_value),
                  original_hash |-> calculate_hash(NormText(rows[j].text_value))]],
              LAMBDA u : u.text_original # LocalText(items, u.remote_id))

\* UpdateOriginal that also sends the rewritten row back to pending, its
\* correction dropped.
UpdateOriginalReset(items, u) ==
    [k \in DOMAIN items |->
        IF items[k].remote_id = u.remote_id
        THEN [items[k] EXCEPT !.text_original = u.text_original,
                              !.original_hash = u.original_hash,
                              !.status = "pending",
                              !.text_corrected = NullText]
        ELSE items[k]]

\* UpdateOriginal without the remote_id condition: every row of the task is
\* rewritten.
UpdateOriginalAll(items, u) ==
    [k \in DOMAIN items |->
        [items[k] EXCEPT !.text_original = u.text_original,
                         !.original_hash = u.original_hash]]

\* UPDATE task_item SET text_original, original_hash WHERE remote_id = %s
UpdateOriginal(items, u) ==
    [k \in DOMAIN items |->
        IF items[k].remote_id = u.remote_id
        THEN [items[k] EXCEPT !.text_original = u.text_original,
                              !.original_hash = u.original_hash]
        ELSE items[k]]

RECURSIVE UpdateOriginalMany(_, _)
UpdateOriginalMany(items, updates) ==
    IF updates = <<>> THEN items
    ELSE UpdateOriginalMany(UpdateOriginal(items, Head(updates)), Tail(updates))

\* ResyncWrites that leaves marker_id alone when no row of the batch differs.
ResyncWritesNoMarker(store, rows, updates) ==
    LET last_remote_id == rows[Len(rows)].remote_id
    IN [task |-> IF updates = <<>> THEN store.task
                 ELSE [store.task EXCEPT !.records_updated = @ + Len(updates),
                                         !.marker_id = last_remote_id],
        task_item |-> UpdateOriginalMany(store.task_item, updates)]

\* The writes of one resync batch transaction (lines 614-639): the updates
\* list as computed from the rows read before, the counter and the cursor.
ResyncWrites(store, rows, updates) ==
    LET last_remote_id == rows[Len(rows)].remote_id
    IN [task |-> [store.task EXCEPT !.records_updated = @ + Len(updates),
                                    !.marker_id = last_remote_id],
        task_item |-> UpdateOriginalMany(store.task_item, updates)]

\* Every statement of the while loop of resynch_remote_batch is a round trip
\* of its own, as in the fetch engine: the batch query of the source, the
\* SELECT of the local rows, the transaction that writes.

\* Lines 570-588: the batch query of the source.  (A batch query returns no
\* row with a NULL id, so valid_rows = row_dicts; no row ends the loop.)
ResyncRead(i) ==
    /\ sync[i].pc = "resynch_loop"
    /\ LET rows == build_fetch_query(source, batch_size, sync[i].current_marker)
       IN sync' = [sync EXCEPT ![i].row_dicts = rows,
                               ![i].pc = IF rows = <<>> THEN "resynch_final"
                                         ELSE "resynch_local"]
    /\ UNCHANGED <<source, batch_size, task, task_item, ai, env>>

\* Lines 590-612: SELECT remote_id, text_original of the local rows of the
\* batch, and the updates list from the comparison with the rows read.
ResyncLocal(i) ==
    /\ sync[i].pc = "resynch_local"
    /\ sync' = [sync EXCEPT ![i].updates = ResyncUpdates(task_item, sync[i].row_dicts),
                            ![i].pc = "resynch_write"]
    /\ UNCHANGED <<source, batch_size, task, task_item, ai, env>>

\* Lines 614-645: the transaction of the batch (start_transaction, the UPDATEs
\* of the updates list, the counter and the cursor, commit) and the end of the
\* iteration.
ResyncBatch(i) ==
    /\ sync[i].pc = "resynch_write"
    /\ LET rows == sync[i].row_dicts
           after == ResyncWrites([task |-> task, task_item |-> task_item], rows,
                                 sync[i].updates)
           last_remote_id == rows[Len(rows)].remote_id
       IN /\ task' = after.task
          /\ task_item' = after.task_item
          /\ sync' = [sync EXCEPT
                ![i].current_marker = last_remote_id,
                ![i].row_dicts = <<>>,
                ![i].updates = <<>>,
                ![i].pc = IF Len(rows) < batch_size
                             \/ ~(last_remote_id < sync[i].marker_max_id)
                          THEN "resynch_final" ELSE "resynch_loop"]
    /\ UNCHANGED <<source, batch_size, ai, env>>

\* The positions inside the try block of resynch_remote_batch.
ResyncPcs == {"resynch_loop", "resynch_local", "resynch_write", "resynch_final"}

\* An exception inside the try block of resynch_remote_batch (lines 569-663:
\* the loop and the finalisation), caught by sync.py 90-95.  Only a batch
\* transaction has uncommitted writes of the model's columns to roll back.
\* Among the statements that can raise is conn_local.start_transaction() of
\* line 614: the connector refuses it while the connection reports a
\* transaction in progress, which a server does after the SELECTs before it
\* when its tables are transactional.
ResyncFail(i) ==
    /\ sync[i].pc \in ResyncPcs
    /\ env.events < MaxEvents
    /\ \E written \in BOOLEAN :
         /\ written => sync[i].pc = "resynch_write"
         /\ LET committed == [task |-> task, task_item |-> task_item]
                dirty == IF written
                         THEN ResyncWrites(committed, sync[i].row_dicts, sync[i].updates)
                         ELSE committed
                after == Rollback(committed, dirty)
            IN /\ task' = append_task_error(after.task, "resynch")
               /\ task_item' = after.task_item
    /\ sync' = [sync EXCEPT ![i] = IdleSync]
    /\ env' = [env EXCEPT !.events = @ + 1]
    /\ UNCHANGED <<source, batch_size, ai>>

\* Lines 647-656: sync_stage = done, marker_id = the old ceiling; sync.py line 89
\* then calls fetch_remote_batch with the same dict `task`.
ResyncFinal(i) ==
    /\ sync[i].pc = "resynch_final"
    /\ task' = [task EXCEPT !.sync_stage = "done",
                            !.marker_id = sync[i].marker_max_id]
    /\ sync' = [sync EXCEPT ![i].pc = "fetch_start"]
    /\ UNCHANGED <<source, batch_size, task_item, ai, env>>

\* ------------------------------------------------------- reconciliation
\* rapidfuzz fuzz.ratio: 100 * 2 * LCS / (len1 + len2), 100 for two empty texts.
RECURSIVE LCS(_, _)
LCS(a, b) ==
    IF a = <<>> \/ b = <<>> THEN 0
    ELSE IF Head(a) = Head(b) THEN 1 + LCS(Tail(a), Tail(b))
    ELSE LET x == LCS(Tail(a), b)
             y == LCS(a, Tail(b))
         IN IF x >= y THEN x ELSE y

\* calculate_similarity_score, in hundredths (10000 is 100.00); None counts as ''.
calculate_similarity_score(original_text, corrected_text) ==
    LET original_value == NormText(original_text)
        corrected_value == NormText(corrected_text)
        n == Len(original_value) + Len(corrected_value)
    IN IF n = 0 THEN 10000
       ELSE Percent(2 * LCS(original_value, corrected_value), n)

\* dict.get(key): None for a key that is absent
Get(v) == IF v = Missing THEN None ELSE v

\* value in (None, '')
IsBlank(v) == v \in {None, EmptyId}

\* original_text_lookup.get(key)
LookupGet(lookup, key) == IF key \in DOMAIN lookup THEN lookup[key] ELSE NullText

\* RowsWhere without the id_task condition: the rows of every task.
RowsWhereAnyTask(items, column, value) ==
    {k \in DOMAIN items :
        IF column = "remote_id" THEN items[k].remote_id = value ELSE k = value}

\* The rows an UPDATE/SELECT ... WHERE id_task = %s AND <column> = %s addresses.
RowsWhere(items, column, value) ==
    {k \in DOMAIN items :
        /\ items[k].id_task = IdTask
        /\ IF column = "remote_id" THEN items[k].remote_id = value ELSE k = value}

\* SelectOriginal that reads the corrected text of the row in place of the
\* original text.
SelectOriginalCorrected(items, column, value) ==
    IF RowsWhere(items, column, value) = {} THEN NullText
    ELSE items[Min(RowsWhere(items, column, value))].text_corrected

\* SELECT text_original ... fetchone + extract_single_value (lines 380-389)
SelectOriginal(items, column, value) ==
    IF RowsWhere(items, column, value) = {} THEN NullText
    ELSE items[Min(RowsWhere(items, column, value))].text_original

\* UpdateUnchanged that stores the (empty) text of the response as the
\* corrected text.
UpdateUnchangedEmpty(items, column, value, ctx, now) ==
    [k \in DOMAIN items |->
        IF k \in RowsWhere(items, column, value)
        THEN [items[k] EXCEPT !.text_corrected = EmptyStr,
                              !.status = "unchanged",
                              !.similarity_score = 10000,
                              !.tokens_input = ctx.tokens_input_per_item,
                              !.tokens_output = ctx.tokens_output_per_item,
                              !.ai_model = ctx.ai_model_name,
                              !.finish_reason = ctx.finish_reason_value,
                              !.processed_at = now]
        ELSE items[k]]

\* The UPDATE of the empty-correction branch (lines 391-410).
UpdateUnchanged(items, column, value, ctx, now) ==
    [k \in DOMAIN items |->
        IF k \in RowsWhere(items, column, value)
        THEN [items[k] EXCEPT !.text_corrected = items[k].text_original,
                              !.status = "unchanged",
                              !.similarity_score = 10000,
                              !.tokens_input = ctx.tokens_input_per_item,
                              !.tokens_output = ctx.tokens_output_per_item,
                              !.ai_model = ctx.ai_model_name,
                              !.finish_reason = ctx.finish_reason_value,
                              !.processed_at = now]
        ELSE items[k]]

\* The UPDATE of the corrected branch (lines 411-430).
UpdateChanged(items, column, value, text_corrected, similarity_score, ctx, now) ==
    [k \in DOMAIN items |->
        IF k \in RowsWhere(items, column, value)
        THEN [items[k] EXCEPT !.text_corrected = text_corrected,
                              !.status = "changed",
                              !.similarity_score = similarity_score,
                              !.tokens_input = ctx.tokens_input_per_item,
                              !.tokens_output = ctx.tokens_output_per_item,
                              !.ai_model = ctx.ai_model_name,
                              !.finish_reason = ctx.finish_reason_value,
                              !.processed_at = now]
        ELSE items[k]]

\* The identifier an element resolves to, and its column (lines 349-361).
FallbackId(item) ==
    IF item.id_task_item # Missing THEN item.id_task_item ELSE Get(item.id)

IdentifierColumn(item) ==
    IF IsBlank(Get(item.remote_id)) THEN "id_task_item" ELSE "remote_id"

IdentifierValue(item) ==
    IF IsBlank(Get(item.remote_id)) THEN FallbackId(item) ELSE Get(item.remote_id)

\* RowCount that reports one row for every UPDATE, matched or not.
RowCountOne(items, written, column, value) == 1

\* cursor.rowcount after the UPDATE (line 431): the rows the statement has
\* changed, that is the rows its WHERE clause addresses whose values were not
\* already the values written (the connection of db_local.py does not ask for
\* the rows found).
RowCount(items, written, column, value) ==
    Cardinality({k \in RowsWhere(items, column, value) : written[k] # items[k]})

\* The for loop of update_task_items_from_json (lines 348-432).  The result
\* carries the rows as written so far (uncommitted), the count, and the
\* ValueError raised, "" when none.  ctx.nows[j] is NOW() of the UPDATE of the
\* j-th element.
RECURSIVE ReconcileLoop(_, _, _, _, _)
ReconcileLoop(items, rest, processed_ids, updated, ctx) ==
    IF rest = <<>> THEN [error |-> "", items |-> items, updated |-> updated]
    ELSE
    LET item == Head(rest)
        now == ctx.nows[Len(ctx.nows) - Len(rest) + 1]
        remote_id == Get(item.remote_id)
        fallback_id == FallbackId(item)
        text_corrected == item.text_corrected
        identifier_column == IdentifierColumn(item)
        identifier_value == IdentifierValue(item)
        first_text == LookupGet(ctx.original_texts, identifier_value)
        alternate_key == IF identifier_column = "remote_id"
                         THEN fallback_id ELSE remote_id
        second_text == IF first_text = NullText /\ ~IsBlank(alternate_key)
                       THEN LookupGet(ctx.original_texts, alternate_key)
                       ELSE first_text
        original_text == IF second_text = NullText
                         THEN SelectOriginal(items, identifier_column, identifier_value)
                         ELSE second_text
        written == IF text_corrected = EmptyStr
                   THEN UpdateUnchanged(items, identifier_column, identifier_value,
                                        ctx, now)
                   ELSE UpdateChanged(items, identifier_column, identifier_value,
                            text_corrected,
                            calculate_similarity_score(original_text, text_corrected),
                            ctx, now)
        rowcount == RowCount(items, written, identifier_column, identifier_value)
        fail(msg) == [error |-> msg, items |-> items, updated |-> updated]
    IN IF remote_id = None /\ fallback_id = None THEN fail("no_identifier")
       ELSE IF text_corrected = NullText THEN fail("no_text_corrected")
       ELSE IF ctx.expected_set # {} /\ identifier_value \notin ctx.expected_set
            THEN fail("unexpected_identifier")
       ELSE IF identifier_value \in processed_ids THEN fail("duplicate_identifier")
       ELSE ReconcileLoop(written, Tail(rest),
                          processed_ids \cup {identifier_value},
                          IF rowcount # 0 THEN updated + 1 ELSE updated, ctx)

\* TokensPerItem that stamps every item with the whole batch total.
TokensPerItemWhole(tokens_total, item_count) == IntOr0(tokens_total)

\* tokens_*_per_item (lines 341-345): int(total or 0) // item_count
TokensPerItem(tokens_total, item_count) == IntOr0(tokens_total) \div item_count

\* update_task_items_from_json (lines 298-434); nows are the readings of NOW()
\* of its UPDATE statements, one for each element of the response.
update_task_items_from_json(items, response_items, expected_remote_ids, tokens_input_total, tokens_output_total, original_texts, ai_model_name, finish_reason_value, nows) ==
    IF response_items = <<>>
    THEN [error |-> "", items |-> items, updated |-> 0]
    ELSE LET item_count == Len(response_items)
         IN ReconcileLoop(items, response_items, {}, 0,
                [expected_set |-> expected_remote_ids,
                 original_texts |-> original_texts,
                 tokens_input_per_item |-> TokensPerItem(tokens_input_total, item_count),
                 tokens_output_per_item |-> TokensPerItem(tokens_output_total, item_count),
                 ai_model_name |-> ai_model_name,
                 finish_reason_value |-> finish_reason_value,
                 nows |-> nows])

\* update_task_ai_progress (lib/task.py lines 27-84)
update_task_ai_progress(t, items) ==
    LET own == {k \in DOMAIN items : items[k].id_task = IdTask}
        unchanged_count == Cardinality({k \in own : items[k].status = "unchanged"})
        changed_count == Cardinality({k \in own : items[k].status = "changed"})
        processed_total == unchanged_count + changed_count
        records_total == t.records_total
        progress_value == IF records_total # 0
                          THEN Percent(processed_total, records_total) ELSE 0
    IN [t EXCEPT !.records_processed = processed_total,
                 !.ai_progress = progress_value,
                 !.status = IF records_total # 0 /\ processed_total >= records_total
                            THEN "export" ELSE @]

\* ------------------------------------------------------- AI runner
\* get_next_task_to_ai: SELECT * FROM task WHERE status IN ('ai') ... LIMIT 1
get_next_task_to_ai(t) == IF t.status = "ai" THEN <<t>> ELSE <<>>

\* The defaults of fetch_pending_task_items: chunk_size and max_items.
ChunkSize == 10
MaxItems == 20

\* PendingChunk that reads from last_id on (id_task_item >= last_id).
PendingChunkInclusive(items, last_id, chunk_size) ==
    LET ids == SortedSeq({k \in DOMAIN items :
                            /\ items[k].id_task = IdTask
                            /\ items[k].status = "pending"
                            /\ k >= last_id})
        n == IF Len(ids) < chunk_size THEN Len(ids) ELSE chunk_size
    IN [j \in 1..n |->
          [id_task_item |-> ids[j], remote_id |-> items[ids[j]].remote_id,
           text_original |-> items[ids[j]].text_original]]

\* The query of one pass of the loop (lines 150-157): SELECT id_task_item,
\* remote_id, text_original ... WHERE id_task = %s AND status = 'pending' AND
\* id_task_item > %s ORDER BY id_task_item ASC LIMIT %s
PendingChunk(items, last_id, chunk_size) ==
    LET ids == SortedSeq({k \in DOMAIN items :
                            /\ items[k].id_task = IdTask
                            /\ items[k].status = "pending"
                            /\ k > last_id})
        n == IF Len(ids) < chunk_size THEN Len(ids) ELSE chunk_size
    IN [j \in 1..n |->
          [id_task_item |-> ids[j], remote_id |-> items[ids[j]].remote_id,
           text_original |-> items[ids[j]].text_original]]

\* The while loop of fetch_pending_task_items (lines 149-163).
RECURSIVE PendingLoop(_, _, _, _, _)
PendingLoop(items, found, last_id, chunk_size, max_items) ==
    IF ~(Len(found) < max_items) THEN found
    ELSE LET batch == PendingChunk(items, last_id, chunk_size)
         IN IF batch = <<>> THEN found
            ELSE IF Len(batch) < chunk_size THEN found \o batch
            ELSE PendingLoop(items, found \o batch, batch[Len(batch)].id_task_item,
                             chunk_size, max_items)

\* fetch_pending_task_items (lines 127-165): items[:max_items]
fetch_pending_task_items(items, chunk_size, max_items) ==
    LET found == PendingLoop(items, <<>>, 0, chunk_size, max_items)
    IN SubSeq(found, 1, IF Len(found) < max_items THEN Len(found) ELSE max_items)

\* build_processing_table: one entry per pending item, in order.
build_processing_table(pending_items) == pending_items

\* expected_identifiers of ai.py lines 116-123
ExpectedIdentifiers(processing_table) ==
    {IF ~IsBlank(processing_table[j].remote_id)
     THEN processing_table[j].remote_id ELSE processing_table[j].id_task_item :
        j \in {j \in DOMAIN processing_table :
                 ~IsBlank(processing_table[j].remote_id)
                 \/ ~IsBlank(processing_table[j].id_task_item)}}

\* remote_lookup of build_original_text_mappings (lines 182-201)
RemoteLookup(processing_table) ==
    [r \in {processing_table[j].remote_id : j \in DOMAIN processing_table} |->
        processing_table[CHOOSE j \in DOMAIN processing_table :
                            processing_table[j].remote_id = r].text_original]

\* ai.py lines 58-113: the task and its pending items.  (The task has a model
\* assigned and the provider and model are supported.)
AiSelect ==
    /\ ai.pc = "idle"
    /\ Len(task.error_log) < MaxLog
    /\ get_next_task_to_ai(task) # <<>>
    /\ LET pending_items == fetch_pending_task_items(task_item, ChunkSize, MaxItems)
       IN ai' = IF pending_items = <<>> THEN IdleAi
                ELSE [IdleAi EXCEPT !.pc = "called",
                                    !.table = build_processing_table(pending_items)]
    /\ UNCHANGED <<source, batch_size, task, task_item, sync, env>>

\* AiGatewayFail with the exception not caught: the process ends, nothing is
\* written to error_log.
AiGatewayFailUncaught ==
    /\ ai.pc = "called"
    /\ env.events < MaxEvents
    /\ ai' = IdleAi
    /\ env' = [env EXCEPT !.events = @ + 1]
    /\ UNCHANGED <<source, batch_size, task, task_item, sync>>

\* ai.py lines 154-172: the callable of execute_api_request raises (the
\* provider is down, the key is refused); the except branch appends the
\* message to error_log, commits and returns.
AiGatewayFail ==
    /\ ai.pc = "called"
    /\ env.events < MaxEvents
    /\ task' = append_task_error(task, "gateway")
    /\ ai' = IdleAi
    /\ env' = [env EXCEPT !.events = @ + 1]
    /\ UNCHANGED <<source, batch_size, task_item, sync>>

\* A response element {"remote_id": r, "text_corrected": c}.
Elem(r, c) == [remote_id |-> r, id_task_item |-> Missing, id |-> Missing,
               text_corrected |-> c]

\* The texts of a response element: empty, the original text, a correction.
CorrTexts == {EmptyStr, TextA, TextAB}

\* Responses that parse and lack a field: an element with no identifier key, an
\* element with no text_corrected.
InvalidResponses ==
    {<<Elem(Missing, EmptyStr)>>} \cup {<<Elem(r, NullText)>> : r \in Ids}

\* The responses of the gateway: up to MaxId elements keyed by remote_id in
\* ascending order (an id may repeat), each with one of the texts.
Responses ==
    {s \in UNION {[1..n -> {Elem(r, c) : r \in Ids, c \in CorrTexts}] : n \in 1..MaxId} :
        \A j \in 1..(Len(s) - 1) : s[j].remote_id <= s[j + 1].remote_id}
    \cup InvalidResponses

\* Token totals the gateway reports with the response.
Usage == [tokens_input_total |-> 7, tokens_output_total |-> 5]

\* ai.py lines 154-172 when the gateway answers with `response`:
\* execute_api_request returns the three values of _extract_response_text
\* (text, input tokens, output tokens), the assignment of lines 155-161 takes
\* five, and the ValueError it raises is caught by the except branch of line
\* 162, which appends the message to error_log, commits and returns.  Nothing
\* after line 172 runs: the response is neither parsed nor reconciled.
AiAnswered(response) ==
    /\ ai.pc = "called"
    /\ task' = append_task_error(task, "unpack")
    /\ ai' = IdleAi
    /\ UNCHANGED <<source, batch_size, task_item, sync, env>>

AiUnpackFail == \E response \in Responses : AiAnswered(response)

\* ------------------------------------------------------- environment
AllIdle == ai.pc = "idle" /\ \A i \in SyncProcs : sync[i].pc = "idle"

\* The source table is owned by others: a row is edited, inserted or deleted.
\* (Only the sync runner reads the source, so a change matters while the task
\* is one the sync runner selects or a sync invocation is still running.)
SourceChange ==
    /\ env.events < MaxEvents
    /\ \/ task.status \in SyncStatuses
       \/ \E i \in SyncProcs : sync[i].pc # "idle"
    /\ \E r \in Ids, v \in SrcTexts \cup {NoRow} :
         /\ v # source[r]
         /\ source' = [source EXCEPT ![r] = v]
    /\ env' = [env EXCEPT !.events = @ + 1]
    /\ UNCHANGED <<batch_size, task, task_item, sync, ai>>

\* The upstream intake sends a synchronised task to the resync branch
\* (status resync is what get_next_task selects, sync_stage resynch is what
\* sync.py line 86 dispatches on).
RequestResync ==
    /\ env.events < MaxEvents
    /\ AllIdle
    /\ task.status \in {"ai", "export"}
    /\ task' = [task EXCEPT !.status = "resync", !.sync_stage = "resynch"]
    /\ env' = [env EXCEPT !.events = @ + 1]
    /\ UNCHANGED <<source, batch_size, task_item, sync, ai>>

\* ------------------------------------------------------- tables of reconciled rows
\* A row that update_task_items_from_json has reconciled with a corrected
\* text, in second 1.
ProcessedRow(r) ==
    UpdateChanged(<<NewItem(r, TextA, calculate_hash(TextA))>>, "remote_id", r,
                  TextAB, calculate_similarity_score(TextA, TextAB),
                  [tokens_input_per_item |-> Usage.tokens_input_total,
                   tokens_output_per_item |-> Usage.tokens_output_total,
                   ai_model_name |-> "model", finish_reason_value |-> "stop"], 1)[1]

\* The stores: the rows of a fetch (ascending remote ids, the local id is the
\* position), some of them reconciled by an earlier call.
JsonStores ==
    {[k \in 1..Cardinality(S) |->
         IF SortedSeq(S)[k] \in done THEN ProcessedRow(SortedSeq(S)[k])
         ELSE NewItem(SortedSeq(S)[k], TextA, calculate_hash(TextA))] :
       S \in (SUBSET Ids) \ {{}}, done \in SUBSET Ids} \
    {<<>>}

JsonPending(items) == build_processing_table(fetch_pending_task_items(items, ChunkSize, MaxItems))

\* The latest second a row of the store was reconciled in (1 when none was).
Latest(items) ==
    LET times == {items[k].processed_at : k \in DOMAIN items} \ {None}
    IN IF times = {} THEN 1 ELSE Max(times)

\* The readings of NOW() of n statements that run one after the other, none
\* before the second `from`.
NowSeqs(n, from) ==
    {s \in [1..n -> from..MaxTime] : \A j \in 1..(n - 1) : s[j] <= s[j + 1]}

\* One call of update_task_items_from_json (lines 298-434) on the store: the
\* rows as the call leaves them (uncommitted), the count it returns or the
\* ValueError it raises.
JsonApply(processing_table, response, expected, nows) ==
    LET res == update_task_items_from_json(task_item, response, expected,
                   Usage.tokens_input_total, Usage.tokens_output_total,
                   RemoteLookup(processing_table), "model", "stop", nows)
    IN /\ task_item' = res.items
       /\ ai' = [pc |-> "json_returned", table |-> processing_table,
                 response |-> response, expected |-> expected,
                 error |-> res.error, updated |-> res.updated]

\* The task row after a fetch that has brought every row of the source.
FetchedTask(items, records_total) ==
    [status |-> "ai", sync_stage |-> "done",
     marker_id |-> items[Len(items)].remote_id,
     marker_max_id |-> items[Len(items)].remote_id,
     records_total |-> records_total, records_fetched |-> Len(items),
     records_updated |-> 0, records_processed |-> 0, sync_progress |-> 10000,
     ai_progress |-> 0, error_log |-> <<>>]

\* The tables resynch_remote_batch and fetch_remote_batch are given, taken as
\* functions of the rows they find: a task fetched in full whose items carry
\* every status the table allows, pending rows and rows as
\* update_task_items_from_json writes them, with the counters of
\* update_task_ai_progress.  No caller under src/ writes a reconciled row
\* (ai.py returns at line 172 before it reconciles), so these are inputs of
\* the two functions and not states the two runners reach; only what the
\* functions leave untouched is checked over them.
InitFrame ==
    /\ task_item \in JsonStores
    /\ source = [r \in Ids |-> IF RowsWhere(task_item, "remote_id", r) # {}
                               THEN TextA ELSE NoRow]
    /\ batch_size \in BatchSizes
    /\ task = update_task_ai_progress(FetchedTask(task_item, Len(task_item)), task_item)
    /\ sync = [i \in SyncProcs |-> IdleSync]
    /\ ai = IdleAi
    /\ env = [events |-> 0]

\* ------------------------------------------------------- specifications
SyncStep(i) ==
    \/ SyncSelect(i)
    \/ FetchCount(i)
    \/ FetchMax(i)
    \/ FetchStart(i)
    \/ FetchRead(i)
    \/ FetchBatch(i)
    \/ FetchFail(i)
    \/ FetchRecount(i)
    \/ FetchFinal(i)
    \/ SyncProgressRead(i)
    \/ SyncProgress(i)
    \/ ResyncRead(i)
    \/ ResyncLocal(i)
    \/ ResyncBatch(i)
    \/ ResyncFail(i)
    \/ ResyncFinal(i)

\* One sync invocation at a time (the timer starts the next one after the last
\* has ended).
AiStep ==
    \/ AiSelect
    \/ AiGatewayFail
    \/ AiUnpackFail

Next ==
    \/ SyncStep(1)
    \/ AiStep
    \/ SourceChange
    \/ RequestResync

Spec == Init /\ [][Next]_vars

\* The same steps on the tables of InitFrame as well: what a resync pass and a
\* re-fetch leave untouched in rows of every status.
SpecFrame == (Init \/ InitFrame) /\ [][Next]_vars

\* The sync runner on its own: the invocations of sync.py, the changes of the
\* source table and the resync requests, with no AI invocation in between (the
\* items stay pending).
NextSync ==
    \/ SyncStep(1)
    \/ SourceChange
    \/ RequestResync

SpecSync == Init /\ [][NextSync]_vars

\* The sync runner with a resync loop that keeps running: the process is not
\* suspended for ever between two iterations.  An iteration that raises is an
\* event from outside and is never forced.
SpecResyncFair ==
    SpecSync /\ WF_vars(ResyncRead(1)) /\ WF_vars(ResyncLocal(1)) /\ WF_vars(ResyncBatch(1))

\* Two sync invocations started by overlapping timer ticks, and the AI runner:
\* nothing in sync.py, ai.py or lib/task.py keeps a second invocation from
\* starting while the first one runs. Every step is one query or one committed
\* transaction of one invocation, and nothing locks the task between the two,
\* so the invocations interleave between statements.
FetchStep(i) ==
    \/ SyncSelect(i)
    \/ FetchCount(i)
    \/ FetchMax(i)
    \/ FetchStart(i)
    \/ FetchRead(i)
    \/ FetchBatch(i)
    \/ FetchRecount(i)
    \/ FetchFinal(i)
    \/ SyncProgressRead(i)
    \/ SyncProgress(i)

NextOverlap ==
    \/ \E i \in SyncProcs : FetchStep(i)
    \/ AiSelect
    \/ AiUnpackFail

\* The overlap is studied with no event from outside: no failure, a source
\* table that does not change.
SpecOverlap == InitWith([Ids -> {NoRow, TextA}], BatchSizes, MaxEvents) /\ [][NextOverlap]_vars

\* The end-to-end scenario of the specification: source ids 1..3, a batch size
\* of 10, a new task; the gateway answers with any response, and an attempt
\* may fail and be retried.
InitE2E == InitWith({[r \in Ids |-> IF r \in 1..3 THEN TextA ELSE NoRow]}, {10}, 0)

\* The responses that cover the three items of the scenario, in order.
E2EResponses ==
    {[j \in 1..3 |-> Elem(j, c[j])] : c \in [1..3 -> CorrTexts]}

\* update_task_items_from_json applied to the items the fetch has left, with a
\* response for them and the expected set ai.py builds (lines 116-123).
E2ECall ==
    /\ AllIdle
    /\ task.status = "ai"
    /\ Len(JsonPending(task_item)) = 3
    /\ \E response \in E2EResponses, nows \in NowSeqs(3, Latest(task_item)) :
          JsonApply(JsonPending(task_item), response,
                    ExpectedIdentifiers(JsonPending(task_item)), nows)
    /\ UNCHANGED <<source, batch_size, task, sync, env>>

NextE2E ==
    \/ FetchStep(1)
    \/ FetchFail(1)
    \/ AiStep
    \/ E2ECall

SpecE2E == InitE2E /\ [][NextE2E]_vars

\* Repeated sync invocations against a source table that is reachable and does
\* not change, on a task as the intake creates it: no statement of the fetch
\* raises and there is no event from outside (the resync branch is entered
\* only for a task the intake has sent to it).  The timer starts an invocation
\* whenever none runs and an invocation runs on to its end.
InitSteady == InitWith([Ids -> {NoRow, TextA}], BatchSizes, MaxEvents)

NextSteady == FetchStep(1)

SteadyFairness ==
    /\ WF_vars(SyncSelect(1))
    /\ WF_vars(FetchCount(1))
    /\ WF_vars(FetchMax(1))
    /\ WF_vars(FetchStart(1))
    /\ WF_vars(FetchRead(1))
    /\ WF_vars(FetchBatch(1))
    /\ WF_vars(FetchRecount(1))
    /\ WF_vars(FetchFinal(1))
    /\ WF_vars(SyncProgressRead(1))
    /\ WF_vars(SyncProgress(1))

SpecSteady == InitSteady /\ [][NextSteady]_vars /\ SteadyFairness

\* The AI runner over a queue of two tasks (ai.py main, lines 55-239): both
\* tasks are in status ai with their rows fetched and pending; a task may have
\* no model assigned (id_ai_model NULL).  Here `task` and `task_item` hold one
\* entry per id_task, and the gateway answers every call.
QueueIds == {1, 2}

QueueItems(n) == [k \in 1..n |-> NewItem(k, TextA, calculate_hash(TextA))]

QueueTask(n, id_ai_model) ==
    [status |-> "ai", sync_stage |-> "done", marker_id |-> n, marker_max_id |-> n,
     records_total |-> n, records_fetched |-> n, records_updated |-> 0,
     records_processed |-> 0, sync_progress |-> 10000, ai_progress |-> 0,
     error_log |-> <<>>, id_ai_model |-> id_ai_model]

InitQueue ==
    /\ source = [r \in Ids |-> NoRow]
    /\ batch_size = MaxBatch
    /\ \E n \in [QueueIds -> Ids], m \in [QueueIds -> {None, 1}] :
          /\ task = [id \in QueueIds |-> QueueTask(n[id], m[id])]
          /\ task_item = [id \in QueueIds |-> QueueItems(n[id])]
    /\ sync = [i \in SyncProcs |-> IdleSync]
    /\ ai = [pc |-> "idle", id_task |-> 0, table |-> <<>>]
    /\ env = [events |-> MaxEvents]

\* get_next_task_to_ai over the task table: WHERE status IN ('ai') ORDER BY
\* id_task ASC LIMIT 1; 0 when no row matches.
NextTaskToAi(tasks) ==
    IF \E id \in DOMAIN tasks : get_next_task_to_ai(tasks[id]) # <<>>
    THEN Min({id \in DOMAIN tasks : get_next_task_to_ai(tasks[id]) # <<>>})
    ELSE 0

\* ai.py lines 58-113: the task, the check of its model, its pending items.
\* An invocation that returns at line 70 or at line 111 has changed nothing.
QueueSelect ==
    /\ ai.pc = "idle"
    /\ NextTaskToAi(task) # 0
    /\ Len(task[NextTaskToAi(task)].error_log) < MaxLog
    /\ LET id_task == NextTaskToAi(task)
           pending_items == fetch_pending_task_items(task_item[id_task], ChunkSize, MaxItems)
       IN ai' = IF task[id_task].id_ai_model = None \/ pending_items = <<>>
                THEN [pc |-> "idle", id_task |-> 0, table |-> <<>>]
                ELSE [pc |-> "called", id_task |-> id_task,
                      table |-> build_processing_table(pending_items)]
    /\ UNCHANGED <<source, batch_size, task, task_item, sync, env>>

\* ai.py lines 154-172 for the selected task: the gateway answers, the
\* assignment of lines 155-161 raises, the message goes to the error_log of
\* the task.
QueueUnpackFail ==
    /\ ai.pc = "called"
    /\ \E response \in Responses :
          task' = [task EXCEPT ![ai.id_task] = append_task_error(@, "unpack")]
    /\ ai' = [pc |-> "idle", id_task |-> 0, table |-> <<>>]
    /\ UNCHANGED <<source, batch_size, task_item, sync, env>>

NextQueue ==
    \/ QueueSelect
    \/ QueueUnpackFail

\* The timer starts an invocation whenever none runs, and the gateway answers.
SpecQueue == InitQueue /\ [][NextQueue]_vars /\ WF_vars(QueueSelect) /\ WF_vars(QueueUnpackFail)

\* update_task_ai_progress on its own: one call on a store of one task with
\* some rows reconciled, and a records_total that the probe counted before or
\* after the source gained or lost rows.
InitProgress ==
    /\ source = [r \in Ids |-> NoRow]
    /\ batch_size = MaxBatch
    /\ task_item \in JsonStores
    /\ \E records_total \in 0..MaxId, status \in {"ai", "resync"} :
          task = [FetchedTask(task_item, records_total) EXCEPT !.status = status]
    /\ sync = [i \in SyncProcs |-> IdleSync]
    /\ ai = [pc |-> "progress_input", table |-> <<>>]
    /\ env = [events |-> MaxEvents]

ProgressCall ==
    /\ ai.pc = "progress_input"
    /\ task' = update_task_ai_progress(task, task_item)
    /\ ai' = [ai EXCEPT !.pc = "progress_returned"]
    /\ UNCHANGED <<source, batch_size, task_item, sync, env>>

SpecProgress == InitProgress /\ [][ProgressCall]_vars

\* The fetch engine on its own: invocations of sync.py on a task in the fetch
\* stages against a source table that may change, with a fetch loop that keeps
\* running.
NextFetch ==
    \/ FetchStep(1)
    \/ FetchFail(1)
    \/ SourceChange

\* One event from outside: a statement that raises or a change of the source.
InitFetch == InitWith([Ids -> {NoRow, TextA}], BatchSizes, MaxEvents - 1)

SpecFetchFair ==
    InitFetch /\ [][NextFetch]_vars /\ WF_vars(FetchRead(1)) /\ WF_vars(FetchBatch(1))

\* update_task_items_from_json on its own: one call on a local store of one
\* task, with a response and an expected-identifier set as arguments.
\* The elements of a response: each of the three identifier keys absent, null,
\* empty or a number; text_corrected absent (NULL), empty or a text.
JsonElems ==
    [remote_id : {Missing, EmptyId} \cup Ids,
     id_task_item : {Missing, None, EmptyId, 1, 2},
     id : {Missing, 1},
     text_corrected : {NullText, EmptyStr, TextAB}]

JsonSecond ==
    {Elem(r, EmptyStr) : r \in Ids} \cup {Elem(Missing, EmptyStr)}

JsonResponses ==
    {<<>>} \cup {<<e>> : e \in JsonElems}
           \cup {<<e, f>> : e \in JsonElems, f \in JsonSecond}

InitJson ==
    /\ source = [r \in Ids |-> NoRow]
    /\ batch_size = MaxBatch
    /\ task_item \in {items \in JsonStores : JsonPending(items) # <<>>}
    /\ task = update_task_ai_progress(
                  [status |-> "ai", sync_stage |-> "done", marker_id |-> MaxId,
                   marker_max_id |-> MaxId, records_total |-> Len(task_item),
                   records_fetched |-> Len(task_item), records_updated |-> 0,
                   records_processed |-> 0, sync_progress |-> 10000,
                   ai_progress |-> 0, error_log |-> <<>>], task_item)
    /\ sync = [i \in SyncProcs |-> IdleSync]
    /\ \E response \in JsonResponses, supplied \in BOOLEAN :
         ai = [pc |-> "json_input", table |-> JsonPending(task_item),
               response |-> response,
               expected |-> IF supplied
                            THEN ExpectedIdentifiers(JsonPending(task_item))
                            ELSE {},
               error |-> "", updated |-> 0]
    /\ env = [events |-> MaxEvents]

\* The call, with the response and the expected set of the input.
JsonCall ==
    /\ ai.pc = "json_input"
    /\ \E nows \in NowSeqs(Len(ai.response), Latest(task_item)) :
          JsonApply(ai.table, ai.response, ai.expected, nows)
    /\ UNCHANGED <<source, batch_size, task, sync, env>>

\* The same call a second time: same response, same expected set, same
\* original texts, on the rows the first call left, in the second of the first
\* call or later.
JsonCallAgain ==
    /\ ai.pc = "json_returned"
    /\ \E nows \in NowSeqs(Len(ai.response), Latest(task_item)) :
          LET res == update_task_items_from_json(task_item, ai.response, ai.expected,
                         Usage.tokens_input_total, Usage.tokens_output_total,
                         RemoteLookup(ai.table), "model", "stop", nows)
          IN /\ task_item' = res.items
             /\ ai' = [ai EXCEPT !.pc = "json_again", !.error = res.error,
                                 !.updated = res.updated]
    /\ UNCHANGED <<source, batch_size, task, sync, env>>

NextJson ==
    \/ JsonCall
    \/ JsonCallAgain

SpecJson == InitJson /\ [][NextJson]_vars

\* update_task_items_from_json on a task_item table that also holds the rows
\* of another task: the rows of the task of the model between rows of id_task 2
\* that carry the same remote ids.  The position in the table is id_task_item.
ForeignItem(r) == [NewItem(r, TextA, calculate_hash(TextA)) EXCEPT !.id_task = 2]

ForeignRows(S) == [k \in 1..Cardinality(S) |-> ForeignItem(SortedSeq(S)[k])]

SharedStores ==
    {ForeignRows(P) \o own \o ForeignRows(Ids) :
        own \in {items \in JsonStores : JsonPending(items) # <<>>},
        P \in {{}, {2}}}

OwnCount(items) == Cardinality({k \in DOMAIN items : items[k].id_task = IdTask})

InitJsonShared ==
    /\ source = [r \in Ids |-> NoRow]
    /\ batch_size = MaxBatch
    /\ task_item \in SharedStores
    /\ task = update_task_ai_progress(
                  [status |-> "ai", sync_stage |-> "done", marker_id |-> MaxId,
                   marker_max_id |-> MaxId, records_total |-> OwnCount(task_item),
                   records_fetched |-> OwnCount(task_item), records_updated |-> 0,
                   records_processed |-> 0, sync_progress |-> 10000,
                   ai_progress |-> 0, error_log |-> <<>>], task_item)
    /\ sync = [i \in SyncProcs |-> IdleSync]
    /\ \E response \in JsonResponses, supplied \in BOOLEAN :
         ai = [pc |-> "json_input", table |-> JsonPending(task_item),
               response |-> response,
               expected |-> IF supplied
                            THEN ExpectedIdentifiers(JsonPending(task_item))
                            ELSE {},
               error |-> "", updated |-> 0]
    /\ env = [events |-> MaxEvents]

SpecJsonShared == InitJsonShared /\ [][JsonCall]_vars

\* fetch_pending_task_items on its own: one call on a task_item table whose
\* rows are pending rows of the task, rows of the task reconciled earlier and
\* pending rows of another task, with a chunk_size and a max_items.
PendingRow(kind, k) ==
    CASE kind = "pending" -> NewItem(k, TextA, calculate_hash(TextA))
      [] kind = "done" -> ProcessedRow(k)
      [] OTHER -> ForeignItem(k)

PendingStores ==
    UNION {{[k \in 1..n |-> PendingRow(kinds[k], k)] :
               kinds \in [1..n -> {"pending", "done", "foreign"}]} : n \in 0..MaxRows}

InitPending ==
    /\ source = [r \in Ids |-> NoRow]
    /\ batch_size = MaxBatch
    /\ task_item \in PendingStores
    /\ task = update_task_ai_progress(
                  [status |-> "ai", sync_stage |-> "done", marker_id |-> MaxRows,
                   marker_max_id |-> MaxRows, records_total |-> OwnCount(task_item),
                   records_fetched |-> OwnCount(task_item), records_updated |-> 0,
                   records_processed |-> 0, sync_progress |-> 10000,
                   ai_progress |-> 0, error_log |-> <<>>], task_item)
    /\ sync = [i \in SyncProcs |-> IdleSync]
    /\ \E chunk_size \in 1..MaxChunk, max_items \in 1..MaxChunk :
         ai = [pc |-> "pending_input", table |-> <<>>,
               chunk_size |-> chunk_size, max_items |-> max_items]
    /\ env = [events |-> MaxEvents]

\* One call of fetch_pending_task_items; the list it returns.
PendingCall ==
    /\ ai.pc = "pending_input"
    /\ ai' = [ai EXCEPT !.pc = "pending_returned",
                        !.table = fetch_pending_task_items(task_item, ai.chunk_size,
                                                           ai.max_items)]
    /\ UNCHANGED <<source, batch_size, task, task_item, sync, env>>

NextPending == PendingCall

SpecPending == InitPending /\ [][NextPending]_vars

\* The fetch of a task whose source names come from the intake unchecked: the
\* names of the table and of its two columns, and whether the source table has
\* the id column, are part of the environment record.
\* The characters of the allow-pattern ^[A-Za-z0-9_]+$ that the names use.
AllowedChars == {"t", "T", "1", "_"}

\* re.match(r"^[A-Za-z0-9_]+$", name): one or more allowed characters; `$` also
\* matches before a final newline.
MatchesIdentifier(name) ==
    LET body == IF name # <<>> /\ name[Len(name)] = "\n"
                THEN SubSeq(name, 1, Len(name) - 1) ELSE name
    IN /\ body # <<>>
       /\ \A j \in DOMAIN body : body[j] \in AllowedChars

\* sanitize_identifier: the name, or the ValueError (NullText stands for it).
sanitize_identifier(name) == IF MatchesIdentifier(name) THEN name ELSE NullText

SchemaNames == {<<"t", "_", "1">>, <<"T", "\n">>, <<"t", ";">>, <<>>}

\* Lines 691-693 of fetch_remote_batch: the three names pass sanitize_identifier.
NamesAccepted ==
    /\ sanitize_identifier(env.table_name) # NullText
    /\ sanitize_identifier(env.id_column_name) # NullText
    /\ sanitize_identifier(env.column_name) # NullText

InitSchema ==
    /\ source \in [Ids -> {NoRow, TextA}]
    /\ batch_size \in BatchSizes
    /\ task = [status |-> "new", sync_stage |-> "new", marker_id |-> 0,
               marker_max_id |-> 0, records_total |-> 0, records_fetched |-> 0,
               records_updated |-> 0, records_processed |-> 0,
               sync_progress |-> 0, ai_progress |-> 0, error_log |-> <<>>]
    /\ task_item = <<>>
    /\ sync = [i \in SyncProcs |-> IdleSync]
    /\ ai = IdleAi
    /\ \E table_name \in SchemaNames, id_column_name \in SchemaNames, present \in BOOLEAN :
         env = [events |-> 0, table_name |-> table_name,
                id_column_name |-> id_column_name,
                column_name |-> <<"t">>, id_column_present |-> present]

\* Lines 691-693: sanitize_identifier raises before the try block of
\* fetch_remote_batch; sync.py lines 66-71 catch the exception and log it to
\* the log file.
FetchRejectIdentifier(i) ==
    /\ sync[i].pc = "fetch_start"
    /\ ~NamesAccepted
    /\ sync' = [sync EXCEPT ![i] = IdleSync]
    /\ UNCHANGED <<source, batch_size, task, task_item, ai, env>>

\* Lines 704-722 and 837-842: the probe of the id column raises inside the try
\* block (the query fails or the first row has no id); rollback, error_log in
\* its own commit, re-raise, caught by sync.py lines 66-71.
FetchProbeFail(i) ==
    /\ sync[i].pc = "fetch_start"
    /\ NamesAccepted
    /\ ~env.id_column_present
    /\ env.events < MaxEvents
    /\ LET committed == [task |-> task, task_item |-> task_item]
           after == Rollback(committed, committed)
       IN /\ task' = append_task_error(after.task, "no_id_column")
          /\ task_item' = after.task_item
    /\ sync' = [sync EXCEPT ![i] = IdleSync]
    /\ env' = [env EXCEPT !.events = @ + 1]
    /\ UNCHANGED <<source, batch_size, ai>>

FetchCountChecked(i) ==
    /\ NamesAccepted
    /\ env.id_column_present
    /\ FetchCount(i)

NextSchema ==
    \/ SyncSelect(1)
    \/ FetchRejectIdentifier(1)
    \/ FetchProbeFail(1)
    \/ FetchCountChecked(1)
    \/ FetchMax(1)
    \/ FetchStart(1)
    \/ FetchRead(1)
    \/ FetchBatch(1)
    \/ FetchRecount(1)
    \/ FetchFinal(1)
    \/ SyncProgressRead(1)
    \/ SyncProgress(1)

SpecSchema == InitSchema /\ [][NextSchema]_vars

\* build_correction_prompt on its own: one call on a list of records.
\* str(n) of a non-negative integer, as a sequence of characters.
DigitChars == <<"0", "1", "2", "3", "4", "5", "6", "7", "8", "9">>

RECURSIVE DecimalText(_)
DecimalText(n) ==
    IF n < 10 THEN <<DigitChars[n + 1]>>
    ELSE DecimalText(n \div 10) \o <<DigitChars[(n % 10) + 1]>>

\* f"{remote_id_value}" of the identifier value or of the literal '?'
IdentifierText(v) == IF v = None THEN <<"?">> ELSE DecimalText(v)

\* PromptIdentifier that knows the external id only.
PromptIdentifierRemoteOnly(record) ==
    IF IsBlank(Get(record.remote_id)) THEN None ELSE Get(record.remote_id)

\* Lines 60-66: remote_id, else id_task_item, else id, else '?' (None here);
\* a value counts as absent when it is None or ''.
PromptIdentifier(record) ==
    IF ~IsBlank(Get(record.remote_id)) THEN Get(record.remote_id)
    ELSE IF ~IsBlank(Get(record.id_task_item)) THEN Get(record.id_task_item)
    ELSE IF ~IsBlank(Get(record.id)) THEN Get(record.id)
    ELSE None

\* str.replace('\r', ' ').replace('\n', ' ')
ReplaceBreaks(text) ==
    [j \in DOMAIN text |-> IF text[j] \in {"\r", "\n"} THEN " " ELSE text[j]]

\* str.strip(): leading and trailing whitespace removed
Whitespace == {" ", "\t", "\n", "\r"}

RECURSIVE StripLeft(_)
StripLeft(text) ==
    IF text # <<>> /\ Head(text) \in Whitespace THEN StripLeft(Tail(text)) ELSE text

RECURSIVE StripRight(_)
StripRight(text) ==
    IF text # <<>> /\ text[Len(text)] \in Whitespace
    THEN StripRight(SubSeq(text, 1, Len(text) - 1)) ELSE text

Strip(text) == StripRight(StripLeft(text))

\* Line 68: (record.get('text_original') or '') with breaks replaced, stripped
PromptText(record) == Strip(ReplaceBreaks(NormText(record.text_original)))

\* Line 69: f"{remote_id_value}. {text_value}"
PromptLine(record) ==
    IdentifierText(PromptIdentifier(record)) \o <<".", " ">> \o PromptText(record)

\* build_correction_prompt, the section of the records (lines 56-77): the
\* opening tag, one line per record, the closing tag.
build_correction_prompt(records) ==
    <<<<"<INPUT>">>>> \o [j \in DOMAIN records |-> PromptLine(records[j])]
                     \o <<<<"</INPUT>">>>>

PromptChars == {"a", " ", "\n", "\r"}
PromptTexts ==
    {NullText} \cup UNION {[1..n -> PromptChars] : n \in 0..2}

PromptRecords ==
    [remote_id : {None, EmptyId, 2, 12}, id_task_item : {None, EmptyId, 1},
     id : {Missing, 3}, text_original : PromptTexts]

PromptSecond ==
    [remote_id : {None, 1}, id_task_item : {None}, id : {Missing},
     text_original : {TextA, <<"a", "\n">>}]

PromptInputs ==
    {<<>>} \cup {<<r>> : r \in PromptRecords}
           \cup {<<r, q>> : r \in PromptRecords, q \in PromptSecond}

InitPrompt ==
    /\ source = [r \in Ids |-> NoRow]
    /\ batch_size = MaxBatch
    /\ task = [status |-> "ai", sync_stage |-> "done", marker_id |-> 0,
               marker_max_id |-> 0, records_total |-> 0, records_fetched |-> 0,
               records_updated |-> 0, records_processed |-> 0,
               sync_progress |-> 0, ai_progress |-> 0, error_log |-> <<>>]
    /\ task_item = <<>>
    /\ sync = [i \in SyncProcs |-> IdleSync]
    /\ \E records \in PromptInputs :
         ai = [pc |-> "prompt_input", table |-> records, prompt |-> <<>>]
    /\ env = [events |-> MaxEvents]

\* One call of build_correction_prompt.
PromptBuild ==
    /\ ai.pc \in {"prompt_input", "prompt_built"}
    /\ ai' = [ai EXCEPT !.pc = IF @ = "prompt_input" THEN "prompt_built"
                                ELSE "prompt_rebuilt",
                        !.prompt = build_correction_prompt(ai.table)]
    /\ UNCHANGED <<source, batch_size, task, task_item, sync, env>>

NextPrompt == PromptBuild

SpecPrompt == InitPrompt /\ [][NextPrompt]_vars

\* ------------------------------------------------------- properties
\* A sync invocation that holds the task: it has selected it and has not ended.
Holds(i) == sync[i].pc # "idle"

\* The highest source id among the rows of task_item, 0 when there is none.
HighestCommitted(items) ==
    IF items = <<>> THEN 0 ELSE Max({items[k].remote_id : k \in DOMAIN items})

\* A step that commits a batch of fetch_remote_batch: the transaction over the
\* rows its batch query returned.
FetchBatchCommits(i) ==
    /\ sync[i].pc = "fetch_write"
    /\ sync'[i].pc \in {"fetch_loop", "fetch_final"}

\* C1: over the committed batches of fetch_remote_batch the persisted
\* marker_id never decreases, and after each committed batch it equals the
\* highest source id among the rows committed to task_item so far.
C1_MarkerMonotone ==
    [][FetchBatchCommits(1) =>
          /\ task'.marker_id >= task.marker_id
          /\ task'.marker_id = HighestCommitted(task_item')]_vars

\* C9: there is no state in which a sync invocation is still fetching or
\* resyncing the task while an AI invocation has selected it and has not
\* ended.
C9_SyncAndAiDisjoint ==
    ~(ai.pc = "called" /\ \E i \in SyncProcs : Holds(i))

\* C10: two concurrently running sync invocations never both hold the task:
\* while one has selected it and has not ended, the selection of the other
\* returns another task or none.
C10_AtomicClaim ==
    ~(Holds(1) /\ Holds(2))

\* The rows of items that hold source id r.
RowsOf(items, r) == {k \in DOMAIN items : items[k].remote_id = r}

\* The source ids a sequence of query rows names.
RowIds(rows) == {rows[j].remote_id : j \in DOMAIN rows}

\* C2: every step of the local store during a fetch shows the batch upsert, the
\* records_fetched increment and the marker_id advance together or not at all:
\* either none of marker_id, records_fetched and task_item moves, or marker_id
\* is the last id the batch query returned, records_fetched has grown by the
\* batch and every returned row is in task_item with the text of the source.
C2_BatchAtomic ==
    [][sync[1].pc \in {"fetch_loop", "fetch_write"} =>
          LET rows == sync[1].row_dicts
          IN \/ /\ task'.marker_id = task.marker_id
                /\ task'.records_fetched = task.records_fetched
                /\ task_item' = task_item
             \/ /\ sync[1].pc = "fetch_write"
                /\ rows # <<>>
                /\ task'.marker_id = rows[Len(rows)].remote_id
                /\ task'.records_fetched = task.records_fetched + Len(rows)
                /\ \A j \in DOMAIN rows :
                      /\ RowsOf(task_item', rows[j].remote_id) # {}
                      /\ \A k \in RowsOf(task_item', rows[j].remote_id) :
                            task_item'[k].text_original = NormText(rows[j].text_value)
                /\ \A j \in DOMAIN rows :
                      /\ sync[1].current_marker < rows[j].remote_id
                      /\ rows[j].remote_id <= task'.marker_id]_vars

\* C2 witness: a fetch has committed a batch and is still in its loop, after an
\* earlier batch of the task was rolled back.
C2_Witness ==
    /\ sync[1].pc = "fetch_loop"
    /\ sync[1].current_marker > sync[1].marker_id
    /\ task.marker_id = sync[1].current_marker
    /\ RowsOf(task_item, task.marker_id) # {}
    /\ task.error_log = <<"fetch">>

\* The last message of error_log, "" when there is none.
LastError(t) == IF t.error_log = <<>> THEN "" ELSE t.error_log[Len(t.error_log)]

\* C3: a failure inside the fetch loop leaves task_item and the task row as
\* committed by the earlier batches, but for the message appended to error_log
\* (so marker_id keeps the value of the last committed batch), and the next
\* invocation that fetches the task starts its batch queries at exactly the
\* persisted marker_id.
C3_FailureKeepsMarker ==
    [][/\ (sync[1].pc \in {"fetch_loop", "fetch_write"} /\ sync'[1].pc = "idle") =>
             /\ task_item' = task_item
             /\ task' = [task EXCEPT !.error_log = Append(@, "fetch")]
       /\ (sync[1].pc = "fetch_mark" /\ sync'[1].pc \in {"fetch_loop", "fetch_final"}
              /\ sync[1].stage = "fetch" /\ LastError(task) = "fetch") =>
             /\ sync'[1].current_marker = task.marker_id
             /\ task'.marker_id = task.marker_id
       /\ (sync[1].pc = "fetch_loop" /\ sync'[1].pc = "fetch_write") =>
             \A j \in DOMAIN sync'[1].row_dicts :
                sync'[1].row_dicts[j].remote_id > sync[1].current_marker]_vars

\* C3 witness: after a failure that followed a committed batch, the next
\* invocation is about to send its first batch query from the marker the
\* committed batch left.
C3_Witness ==
    /\ sync[1].pc = "fetch_loop"
    /\ sync[1].stage = "fetch"
    /\ LastError(task) = "fetch"
    /\ task.marker_id > 0
    /\ sync[1].current_marker = task.marker_id
    /\ sync[1].marker_id = task.marker_id
    /\ HighestCommitted(task_item) = task.marker_id

\* C4: a batch of fetch_remote_batch that returns rows the task already holds
\* with the same text leaves those task_item rows as they are and inserts a row
\* only for an id the task does not hold yet; and the final recount sets
\* records_fetched to the number of task_item rows, whatever the increments of
\* the batches added up to.
C4_RefetchIdempotent ==
    [][/\ FetchBatchCommits(1) =>
             LET rows == sync[1].row_dicts
                 fresh == {r \in RowIds(rows) : RowsOf(task_item, r) = {}}
             IN /\ Len(task_item') = Len(task_item) + Cardinality(fresh)
                /\ \A k \in DOMAIN task_item :
                      /\ task_item'[k].remote_id = task_item[k].remote_id
                      /\ (\A j \in DOMAIN rows :
                             rows[j].remote_id = task_item[k].remote_id =>
                             NormText(rows[j].text_value) = task_item[k].text_original)
                           => task_item'[k] = task_item[k]
       /\ (sync[1].pc = "fetch_done" /\ sync'[1].pc = "progress") =>
             /\ task_item' = task_item
             /\ task'.records_fetched = Len(task_item)]_vars

\* C4 witness: batches were fetched twice (the increments add up to more than
\* the rows the task holds) and the final recount is next.
C4_Witness ==
    /\ sync[1].pc = "fetch_final"
    /\ task.records_fetched > Len(task_item)
    /\ Len(task_item) >= 2

\* A step that commits a batch of resynch_remote_batch: the transaction over
\* the rows its batch query returned.
ResyncBatchCommits ==
    /\ sync[1].pc = "resynch_write"
    /\ sync'[1].pc \in {"resynch_loop", "resynch_final"}

\* C5: a batch of resynch_remote_batch rewrites text_original/original_hash of
\* exactly the task_item rows whose source row is in the batch and differs in
\* text from the local copy (K rows, counted in records_updated when every row
\* of the batch has a local copy), with the text the batch query returned,
\* writes no other row, and moves the cursor marker_id to the last row of the
\* batch; and the batch query returns the source rows next above the cursor,
\* skipping none.
C5_ResyncRewritesChanged ==
    [][/\ ResyncBatchCommits =>
          LET rows == sync[1].row_dicts
              differs(k) == \E j \in DOMAIN rows :
                                /\ rows[j].remote_id = task_item[k].remote_id
                                /\ NormText(rows[j].text_value) # task_item[k].text_original
              read(k) == rows[CHOOSE j \in DOMAIN rows :
                                 rows[j].remote_id = task_item[k].remote_id].text_value
              K == Cardinality({k \in DOMAIN task_item : differs(k)})
          IN /\ DOMAIN task_item' = DOMAIN task_item
             /\ \A k \in DOMAIN task_item :
                   IF differs(k)
                   THEN /\ task_item'[k] # task_item[k]
                        /\ task_item'[k] =
                             [task_item[k] EXCEPT
                                !.text_original = NormText(read(k)),
                                !.original_hash = calculate_hash(NormText(read(k)))]
                   ELSE task_item'[k] = task_item[k]
             /\ (\A j \in DOMAIN rows : RowsOf(task_item, rows[j].remote_id) # {})
                   => task'.records_updated = task.records_updated + K
             /\ task'.marker_id = rows[Len(rows)].remote_id
             /\ sync'[1].current_marker = task'.marker_id
             /\ \A j \in DOMAIN rows : sync[1].current_marker < rows[j].remote_id
       /\ (sync[1].pc = "resynch_loop" /\ sync'[1].pc = "resynch_local") =>
             LET rows == sync'[1].row_dicts
             IN \A r \in SourceIds(source) :
                   (sync[1].current_marker < r /\ r <= rows[Len(rows)].remote_id)
                       => r \in RowIds(rows)]_vars

\* C5 witness: a resync pass over three rows has rewritten exactly one, the one
\* whose source text had changed, and its cursor is past all three.
C5_Witness ==
    /\ sync[1].pc = "resynch_final"
    /\ Len(task_item) = 3
    /\ task.records_updated = 1
    /\ task.marker_id = 3
    /\ Cardinality({k \in DOMAIN task_item : task_item[k].text_original = TextAB}) = 1
    /\ \A k \in DOMAIN task_item :
          task_item[k].text_original = NormText(source[task_item[k].remote_id])

\* The identifiers the elements of a response resolve to.
ResponseIds(response) == {IdentifierValue(response[j]) : j \in DOMAIN response}

\* The rows of the store that an element of a response addresses.
AddressedBy(items, element) ==
    RowsWhere(items, IdentifierColumn(element), IdentifierValue(element))

\* The rows of the store that the UPDATE of some element of a response
\* addresses.
Targeted(items, response) ==
    UNION {AddressedBy(items, response[j]) : j \in DOMAIN response}

\* A response that names the same resolved identifier twice.
HasDuplicate(response) ==
    \E i, j \in DOMAIN response :
        i < j /\ IdentifierValue(response[i]) = IdentifierValue(response[j])

\* The messages of the validation failures of a reconciliation.
ValidationErrors ==
    {"invalid_json", "no_identifier", "no_text_corrected",
     "unexpected_identifier", "duplicate_identifier"}

\* C6: an AI invocation whose gateway answers with a response that names an
\* identifier twice ends with every task_item as it was before and with the
\* message of the failed validation appended to the task's error_log.
C6_DuplicateFailsBatch ==
    [][\A response \in Responses :
          (HasDuplicate(response) /\ AiAnswered(response)) =>
              /\ task_item' = task_item
              /\ Len(task'.error_log) = Len(task.error_log) + 1
              /\ LastError(task') \in ValidationErrors]_vars

\* A response with one element for each expected identifier and no other,
\* every text_corrected empty.
CoversWithEmpty(response, expected) ==
    /\ ResponseIds(response) = expected
    /\ Len(response) = Cardinality(expected)
    /\ \A j \in DOMAIN response : response[j].text_corrected = EmptyStr

\* C7: a call of update_task_items_from_json with a response that covers the
\* expected identifiers with empty corrections raises nothing and leaves every
\* item its elements address with status unchanged, similarity 100 and a corrected text
\* equal to its original text.
C7_EmptyMeansUnchanged ==
    [][(JsonCall /\ CoversWithEmpty(ai.response, ExpectedIdentifiers(ai.table))) =>
          /\ ai'.error = ""
          /\ \A k \in Targeted(task_item, ai.response) :
                   /\ task_item'[k].status = "unchanged"
                   /\ task_item'[k].similarity_score = 10000
                   /\ task_item'[k].text_corrected = task_item[k].text_original
                   /\ task_item'[k].text_original = task_item[k].text_original]_vars

\* C7 witness: a call has returned for a response with empty corrections for
\* the two pending items of the store, next to an item reconciled earlier.
C7_Witness ==
    /\ ai.pc = "json_returned"
    /\ ai.error = ""
    /\ Len(ai.table) = 2
    /\ Len(task_item) = 3
    /\ CoversWithEmpty(ai.response, ExpectedIdentifiers(ai.table))
    /\ Cardinality(Targeted(task_item, ai.response)) = 2
    /\ \A k \in Targeted(task_item, ai.response) :
             /\ task_item[k].status = "unchanged"
             /\ task_item[k].similarity_score = 10000
             /\ task_item[k].text_corrected = task_item[k].text_original

\* The response of the end-to-end scenario.
E2EResponse == <<Elem(1, EmptyStr), Elem(2, TextAB), Elem(3, EmptyStr)>>

\* C8: with source ids 1..3 and a batch size of 10, the fetch of the new task
\* leaves 3 pending items for ids 1, 2, 3, marker_id = 3 and records_fetched =
\* 3; reconciling the scenario's response then gives the statuses unchanged,
\* changed, unchanged, a similarity below 100 for item 2 and a count of 3.
C8_EndToEnd ==
    /\ sync[1].pc = "fetch_final" =>
          /\ Len(task_item) = 3
          /\ \A k \in DOMAIN task_item :
                task_item[k].remote_id = k /\ task_item[k].status = "pending"
          /\ task.marker_id = 3
          /\ task.records_fetched = 3
    /\ (ai.pc = "json_returned" /\ ai.response = E2EResponse) =>
          /\ ai.error = ""
          /\ task_item[1].status = "unchanged"
          /\ task_item[2].status = "changed"
          /\ task_item[3].status = "unchanged"
          /\ task_item[2].similarity_score < 10000
          /\ ai.updated = 3

\* C8 witness: the scenario has run to its end.
C8_Witness ==
    /\ ai.pc = "json_returned"
    /\ ai.response = E2EResponse
    /\ task.marker_id = 3
    /\ task.records_fetched = 3
    /\ Len(task_item) = 3
    /\ task_item[1].status = "unchanged"
    /\ task_item[2].status = "changed"
    /\ task_item[3].status = "unchanged"
    /\ task_item[2].text_corrected = TextAB
    /\ task_item[2].similarity_score < 10000
    /\ ai.updated = 3

\* The step that ends a sync invocation whose fetch raised nothing.
SyncEnds(i) == sync[i].pc = "progress_write" /\ sync'[i].pc = "idle"

\* C11: when a sync invocation ends after a fetch without error, the task has
\* sync_stage done and status ai if and only if records_fetched =
\* records_total > 0, and otherwise keeps a status the sync runner selects.
C11_HandoverIff ==
    [][SyncEnds(1) =>
          LET complete == task'.records_total > 0
                          /\ task'.records_fetched = task'.records_total
          IN /\ (task'.sync_stage = "done" /\ task'.status = "ai") <=> complete
             /\ ~complete => task'.status \in SyncStatuses]_vars

\* C11 witness: a sync invocation has ended with every source row fetched and
\* the task handed over.
C11_Witness ==
    /\ sync[1].pc = "idle"
    /\ task.status = "ai"
    /\ task.sync_stage = "done"
    /\ task.records_total > 0
    /\ task.records_fetched = task.records_total
    /\ Len(task_item) = task.records_total

\* The number of items the AI runner has processed.
ProcessedCount(items) ==
    Cardinality({k \in DOMAIN items : items[k].status \in {"unchanged", "changed"}})

\* C12: after a call of update_task_ai_progress the status is export if and
\* only if records_total > 0 and the items with status unchanged or changed
\* are as many as records_total; in every other case the status is left as it
\* was.
C12_ExportIffAllProcessed ==
    [][ProgressCall =>
          LET all == task'.records_total > 0
                     /\ ProcessedCount(task_item') = task'.records_total
          IN /\ task'.status = "export" <=> all
             /\ ~all => task'.status = task.status]_vars

\* C13: no committed state of the local store has a trigger condition true and
\* its transition not applied: records_fetched = records_total > 0 goes with a
\* status of ai or export, and all records_total items processed goes with the
\* status export.
C13_TransitionWithCounters ==
    /\ (task.records_total > 0 /\ task.records_fetched = task.records_total)
          => task.status \in {"ai", "export"}
    /\ (task.records_total > 0 /\ ProcessedCount(task_item) = task.records_total)
          => task.status = "export"

\* C14: once the probe has set records_total (the task has left the stage
\* new), records_fetched never exceeds records_total in a committed state.
C14_FetchedWithinTotal ==
    task.sync_stage # "new" => task.records_fetched <= task.records_total

\* C15: the fetch marker never exceeds the ceiling recorded by the probe:
\* marker_id <= marker_max_id in every committed state.
C15_MarkerWithinCeiling == task.marker_id <= task.marker_max_id

\* The lifecycle stage of a task row, read from its two columns: status takes
\* over once the task is handed to the AI runner; before that the sync_stage
\* tells the stage (sync_stage done with a sync-eligible status is a fetch that
\* has finished and is not handed over yet).
LifecycleStage(t) ==
    IF t.status = "export" THEN "export"
    ELSE IF t.status = "ai" THEN "ai"
    ELSE IF t.sync_stage = "resynch" THEN "resync"
    ELSE IF t.sync_stage = "new" THEN "new"
    ELSE "fetch"

StageRank(stage) ==
    CASE stage = "new" -> 0
      [] stage = "fetch" -> 1
      [] stage = "ai" -> 2
      [] stage = "export" -> 3
      [] stage = "done" -> 4
      [] OTHER -> 1

InvocationStep == <<sync, ai>>' # <<sync, ai>>

\* C16: a step of a sync or AI invocation never moves the lifecycle stage
\* backward in the order new, fetch, ai, export, done; the one exception is a
\* task in resync, which stays in resync or goes to fetch, and no invocation
\* puts a task into resync.
C16_StageForward == [][InvocationStep => LET before == LifecycleStage(task)
          after == LifecycleStage(task')
      IN /\ after = "resync" => before = "resync"
         /\ before = "resync" => after \in {"resync", "fetch"}
         /\ (before # "resync" /\ after # "resync") => StageRank(after) >= StageRank(before)]_vars

\* C16 witness: the task has been fetched and handed over, sent to resync,
\* and handed over again after a resync pass that rewrote a row and the fetch
\* that revisits the stage fetch after it.
C16_Witness ==
    /\ sync[1].pc = "idle"
    /\ task.status = "ai"
    /\ task.sync_stage = "done"
    /\ task.records_updated > 0

RowIdentifier(items, k) ==
    IF ~IsBlank(items[k].remote_id) THEN items[k].remote_id ELSE k

\* C18: a call of update_task_items_from_json with a (non-empty) expected set
\* raises when an element resolves to an identifier outside the set, and
\* writes no row whose identifier is outside the set.
C18_OnlyExpectedUpdated ==
    [][(JsonCall /\ ai.expected # {}) =>
          /\ (\E j \in DOMAIN ai.response :
                 IdentifierValue(ai.response[j]) \notin ai.expected)
               => ai'.error # ""
          /\ \A k \in DOMAIN task_item :
                 RowIdentifier(task_item, k) \notin ai.expected
                 => task_item'[k] = task_item[k]]_vars

\* An element carries an identifier when one of remote_id, id_task_item and id
\* is neither missing, null nor empty.
HasIdentifier(e) ==
    \E v \in {e.remote_id, e.id_task_item, e.id} : v \notin {Missing, None, EmptyId}

\* C19: a call of update_task_items_from_json raises whenever an element of the
\* response carries no identifier or no text_corrected, and it accepts an
\* element with an expected remote_id and an empty text_corrected.
C19_MissingFieldFails ==
    [][JsonCall =>
          /\ (\E j \in DOMAIN ai.response :
                 \/ ~HasIdentifier(ai.response[j])
                 \/ ai.response[j].text_corrected = NullText)
               => ai'.error # ""
          /\ (/\ Len(ai.response) = 1
              /\ ai.response[1].text_corrected = EmptyStr
              /\ ai.response[1].remote_id \in ExpectedIdentifiers(ai.table))
               => ai'.error = ""]_vars

\* The ValueError that the reconciliation of a response raises on the store
\* ("" when it raises none).
ValidationError(items, processing_table, response) ==
    update_task_items_from_json(items, response,
        ExpectedIdentifiers(processing_table), Usage.tokens_input_total,
        Usage.tokens_output_total, RemoteLookup(processing_table), "model",
        "stop", [j \in DOMAIN response |-> MaxTime]).error

\* C20: an AI invocation whose gateway answers with a response that fails
\* validation leaves every task_item row as it was, appends the validation
\* error to error_log and changes nothing else of the task, and the pending
\* batch the next AI invocation selects is the batch this one had.
C20_FailedBatchRetried ==
    [][\A response \in Responses :
          (/\ AiAnswered(response)
           /\ ValidationError(task_item, ai.table, response) # "") =>
              /\ task_item' = task_item
              /\ task' = [task EXCEPT !.error_log =
                              Append(@, ValidationError(task_item, ai.table, response))]
              /\ get_next_task_to_ai(task') # <<>>
              /\ build_processing_table(fetch_pending_task_items(task_item', ChunkSize, MaxItems)) = ai.table]_vars

\* An AI invocation ends because the gateway call failed.
AiGatewayFails ==
    /\ ai.pc = "called"
    /\ ai'.pc = "idle"
    /\ env'.events = env.events + 1

\* C21: an AI invocation whose gateway call fails ends with the error appended
\* to error_log, no task_item changed, nothing else of the task changed, and
\* the task still in status ai, selected by the next AI invocation.
C21_GatewayFailureLogged ==
    [][AiGatewayFails =>
          /\ task' = [task EXCEPT !.error_log = Append(@, "gateway")]
          /\ task_item' = task_item
          /\ task'.status = "ai"
          /\ get_next_task_to_ai(task') # <<>>]_vars

\* The gateway failed twice, with the items of the task still pending.
C21_Witness ==
    /\ ai.pc = "idle"
    /\ task.error_log = <<"gateway", "gateway">>
    /\ task.status = "ai"
    /\ Len(task_item) >= 1
    /\ \A k \in DOMAIN task_item : task_item[k].status = "pending"

\* A sync invocation ends at the start of fetch_remote_batch, before the probe
\* has written anything: a schema or validation error.
SchemaErrorEnds == sync[1].pc = "fetch_start" /\ sync'[1].pc = "idle"

\* C22: a sync invocation that hits a schema or validation error commits no
\* batch (task_item and the counters stay), appends the error to error_log and
\* changes nothing else of the task row, and ends.
C22_SchemaErrorLogged ==
    [][SchemaErrorEnds =>
          /\ task_item' = task_item
          /\ Len(task'.error_log) = Len(task.error_log) + 1
          /\ task' = [task EXCEPT !.error_log = task'.error_log]]_vars

\* The stages sync.py dispatches on (lines 63 and 86); any other stage takes
\* the else branch of line 110, which does no work.
DispatchedStages == {"new", "fetch", "resynch"}

\* C23: whenever a sync invocation can start (none is running) and
\* get_next_task selects the task, the task's stage is one sync.py works on:
\* no selected task is skipped without work.
C23_SelectedIsProcessed ==
    (sync[1].pc = "idle" /\ get_next_task(task) # <<>>)
        => Head(get_next_task(task)).sync_stage \in DispatchedStages

\* The fields of a task_item row that reconciliation writes.
AiFields(row) ==
    [status |-> row.status, text_corrected |-> row.text_corrected,
     similarity_score |-> row.similarity_score,
     tokens_input |-> row.tokens_input, tokens_output |-> row.tokens_output,
     ai_model |-> row.ai_model, finish_reason |-> row.finish_reason]

\* C24: a second application of update_task_items_from_json with the same
\* arguments leaves status, text_corrected, similarity_score, tokens, model
\* and finish reason of every task_item row as the first application left
\* them, and raises what the first raised.
C24_ReconcileIdempotent ==
    [][JsonCallAgain =>
          /\ Len(task_item') = Len(task_item)
          /\ \A k \in DOMAIN task_item :
                /\ AiFields(task_item'[k]) = AiFields(task_item[k])
                /\ task_item'[k].text_original = task_item[k].text_original
          /\ ai'.error = ai.error]_vars

\* The response was applied twice, the second time in the second of the first,
\* to a store with rows written as changed and as unchanged: the second
\* application has changed no row.
C24_Witness ==
    /\ ai.pc = "json_again"
    /\ ai.error = ""
    /\ ai.updated = 0
    /\ Len(ai.response) = 2
    /\ \E k \in DOMAIN task_item :
          task_item[k].status = "changed" /\ task_item[k].processed_at = MaxTime
    /\ \E k \in DOMAIN task_item :
          task_item[k].status = "unchanged" /\ task_item[k].processed_at = MaxTime
    /\ \E j \in DOMAIN ai.response : ai.response[j].text_corrected = TextAB

\* The elements of a response whose identifier addresses a row of the store.
MatchingElements(items, response) ==
    {j \in DOMAIN response :
        RowsWhere(items, IdentifierColumn(response[j]),
                  IdentifierValue(response[j])) # {}}

\* The rows of the store that are pending.
PendingRows(items) == {k \in DOMAIN items : items[k].status = "pending"}

\* C25: a call of update_task_items_from_json that returns, returns the number
\* of response elements whose UPDATE has changed a row: an element that
\* matches no row is not counted, the count is at most the number of
\* elements, every row the call has changed is counted, and when the elements
\* address pending rows, each its own, every matching element is counted.
C25_CountsAffectedRows ==
    [][(JsonCall /\ ai'.error = "") =>
          /\ ai'.updated <= Cardinality(MatchingElements(task_item, ai.response))
          /\ ai'.updated <= Len(ai.response)
          /\ ai'.updated >= Cardinality({k \in DOMAIN task_item :
                                            task_item'[k] # task_item[k]})
          /\ (/\ \A j \in MatchingElements(task_item, ai.response) :
                    AddressedBy(task_item, ai.response[j]) \subseteq PendingRows(task_item)
              /\ \A i, j \in MatchingElements(task_item, ai.response) :
                    i # j => AddressedBy(task_item, ai.response[i])
                               \cap AddressedBy(task_item, ai.response[j]) = {})
                => ai'.updated = Cardinality(MatchingElements(task_item, ai.response))]_vars

\* A call with two elements that address the same row, one by its
\* id_task_item and one by its remote_id, has returned 1: the second UPDATE
\* wrote the values the first had written, in the same second.
C25_Witness ==
    /\ ai.pc = "json_returned"
    /\ ai.error = ""
    /\ Len(ai.response) = 2
    /\ Cardinality(MatchingElements(task_item, ai.response)) = 2
    /\ ai.updated = 1

\* The rows of the store that the elements of a response address.
AddressedRows(items, response) ==
    {k \in DOMAIN items :
        \E j \in DOMAIN response :
            k \in RowsWhere(items, IdentifierColumn(response[j]),
                            IdentifierValue(response[j]))}

\* The rows a returning call has stamped carry floor(total / n) of each token
\* total, n being the number of response elements.
StampedWithSplit ==
    \A k \in AddressedRows(task_item, ai.response) :
        /\ task_item'[k].tokens_input = Usage.tokens_input_total \div Len(ai.response)
        /\ task_item'[k].tokens_output = Usage.tokens_output_total \div Len(ai.response)

\* The per-item values summed over the stamped rows.
StampedSum(tokens_total) ==
    Cardinality(AddressedRows(task_item, ai.response)) * (tokens_total \div Len(ai.response))

JsonReturns == JsonCall /\ ai'.error = "" /\ ai.response # <<>>

\* C26 as stated: the rows a call reconciles are stamped with floor(total / n),
\* and the stamps summed over those rows are at most the batch total and fall
\* short of it by less than n.
C26_TokenSplit ==
    [][JsonReturns =>
          /\ StampedWithSplit
          /\ \A total \in {Usage.tokens_input_total, Usage.tokens_output_total} :
                /\ StampedSum(total) <= total
                /\ total - StampedSum(total) < Len(ai.response)]_vars

\* C26 amended: the rows a call reconciles are stamped with floor(total / n);
\* the stamps summed over those rows are at most the batch total, and they
\* fall short of it by less than n when the n elements address n rows (the
\* share of an element that addresses no row, or a row another element
\* addresses, is attributed to no item).
C26_TokenSplitPerElement ==
    [][JsonReturns =>
          /\ StampedWithSplit
          /\ \A total \in {Usage.tokens_input_total, Usage.tokens_output_total} :
                /\ StampedSum(total) <= total
                /\ Cardinality(AddressedRows(task_item, ai.response)) = Len(ai.response)
                      => total - StampedSum(total) < Len(ai.response)]_vars

\* A call with two elements has stamped two rows, each with floor(7 / 2) input
\* and floor(5 / 2) output tokens.
C26_Witness ==
    /\ ai.pc = "json_returned"
    /\ ai.error = ""
    /\ Len(ai.response) = 2
    /\ Cardinality({k \in DOMAIN task_item :
            task_item[k].tokens_input = 3 /\ task_item[k].tokens_output = 2}) = 2

\* The identifier the claim names for a record: the external id if present,
\* else the internal id (id_task_item, then id), else '?'.
ClaimedIdentifierText(record) ==
    IdentifierText(
        IF ~IsBlank(Get(record.remote_id)) THEN Get(record.remote_id)
        ELSE IF ~IsBlank(Get(record.id_task_item)) THEN Get(record.id_task_item)
        ELSE IF ~IsBlank(Get(record.id)) THEN Get(record.id)
        ELSE None)

\* The input lines of a prompt: what stands between the two tags.
InputLines(prompt) == SubSeq(prompt, 2, Len(prompt) - 1)

\* C27 as stated: the prompt has one input line per record, in the order of
\* the records, each '<identifier>. <text>' with the text's newlines and
\* carriage returns replaced by spaces; a second call gives the same prompt.
C27_PromptLines ==
    [][PromptBuild =>
          /\ Len(InputLines(ai'.prompt)) = Len(ai.table)
          /\ \A j \in DOMAIN ai.table :
                InputLines(ai'.prompt)[j] =
                    ClaimedIdentifierText(ai.table[j]) \o <<".", " ">>
                        \o ReplaceBreaks(NormText(ai.table[j].text_original))
          /\ ai.pc = "prompt_built" => ai'.prompt = ai.prompt]_vars

\* C27 amended: as stated, with the text also stripped of leading and trailing
\* whitespace after the replacement.
C27_PromptLinesStripped ==
    [][PromptBuild =>
          /\ Len(InputLines(ai'.prompt)) = Len(ai.table)
          /\ \A j \in DOMAIN ai.table :
                InputLines(ai'.prompt)[j] =
                    ClaimedIdentifierText(ai.table[j]) \o <<".", " ">>
                        \o Strip(ReplaceBreaks(NormText(ai.table[j].text_original)))
          /\ ai.pc = "prompt_built" => ai'.prompt = ai.prompt]_vars

\* A prompt was built twice for two records: the first has no external id and
\* a text with a break inside, the second a text that ends in a newline.
C27_Witness ==
    /\ ai.pc = "prompt_rebuilt"
    /\ Len(ai.table) = 2
    /\ ai.table[1].remote_id = None
    /\ ai.table[1].text_original = <<"a", "\r">>
    /\ ai.table[2].text_original = <<"a", "\n">>
    /\ InputLines(ai.prompt) = << <<"1", ".", " ", "a">>, <<"1", ".", " ", "a">> >>

\* A step of resynch_remote_batch: a query, a batch transaction, the
\* finalisation or a failure.
ResyncSteps ==
    /\ sync[1].pc \in ResyncPcs
    /\ sync'[1] # sync[1]

\* C28: a step of a resync pass neither adds nor removes a task_item and leaves
\* status, text_corrected, similarity_score and the AI metadata of every item
\* as they were, items whose text it rewrites included.
C28_ResyncKeepsCorrections ==
    [][ResyncSteps =>
          /\ Len(task_item') = Len(task_item)
          /\ \A k \in DOMAIN task_item :
                /\ task_item'[k].remote_id = task_item[k].remote_id
                /\ AiFields(task_item'[k]) = AiFields(task_item[k])]_vars

\* A resync pass has rewritten the original text of an item that carries a
\* correction.
C28_Witness ==
    /\ sync[1].pc = "resynch_final"
    /\ task.records_updated >= 1
    /\ \E k \in DOMAIN task_item :
          /\ task_item[k].status = "changed"
          /\ task_item[k].text_corrected = TextAB
          /\ task_item[k].text_original = NormText(source[task_item[k].remote_id])
          /\ task_item[k].text_original # TextA

\* C29: a committed batch of a fetch leaves status, text_corrected,
\* similarity_score and the AI metadata of every item that existed before it
\* as they were (re-fetched items included), and every row it inserts is
\* pending with no correction.
C29_RefetchKeepsStatus ==
    [][\A i \in SyncProcs : FetchBatchCommits(i) =>
          /\ \A k \in DOMAIN task_item :
                /\ task_item'[k].remote_id = task_item[k].remote_id
                /\ AiFields(task_item'[k]) = AiFields(task_item[k])
          /\ \A k \in DOMAIN task_item' \ DOMAIN task_item :
                /\ task_item'[k].status = "pending"
                /\ task_item'[k].text_corrected = NullText]_vars

\* Every item was reconciled, one of them as changed; then, in a resync
\* invocation, the fetch after the resync pass has fetched existing items again
\* (records_fetched counts them a second time).
C29_Witness ==
    /\ sync[1].pc = "fetch_final"
    /\ task.status = "resync"
    /\ task.records_fetched > Len(task_item)
    /\ Len(task_item) >= 2
    /\ \A k \in DOMAIN task_item : task_item[k].status \in {"changed", "unchanged"}
    /\ task_item[Len(task_item)].status = "changed"

\* C30: every source row a batch of a resync pass has read has an id above the
\* cursor and not above the ceiling marker_max_id recorded before the pass,
\* and the cursor the batch commits is not above the ceiling either.
C30_ResyncWithinCeiling ==
    [][ResyncBatchCommits =>
          LET rows == sync[1].row_dicts
          IN /\ \A j \in DOMAIN rows :
                   /\ rows[j].remote_id > sync[1].current_marker
                   /\ rows[j].remote_id <= sync[1].marker_max_id
             /\ task'.marker_id <= sync[1].marker_max_id]_vars

\* ------------------------------------------------------- resync, then fetch
\* A sync invocation that ran the resync branch (sync.py lines 86-97) ends.
ResyncInvocationEnds ==
    /\ sync[1].stage = "resynch"
    /\ sync[1].pc = "progress_write"
    /\ sync'[1].pc = "idle"

\* C31: when a sync invocation that completed a resync pass ends, every source
\* row with an id above the ceiling recorded before the pass has a pending
\* task_item, and marker_id is the maximum id of the source.
C31_ResyncThenFetch ==
    [][ResyncInvocationEnds =>
          /\ \A r \in SourceIds(source) :
                r > sync[1].snap_max =>
                   \E k \in DOMAIN task_item :
                      /\ task_item[k].remote_id = r
                      /\ task_item[k].status = "pending"
          /\ task'.marker_id = MaxQuery(source)]_vars

\* The positions inside the while loop of resynch_remote_batch.
ResyncLoopPcs == {"resynch_loop", "resynch_local", "resynch_write"}

\* The step that ends an iteration of the while loop of resynch_remote_batch
\* without raising: a batch query that returns no row, or the commit of the
\* batch.
ResyncIteration ==
    \/ sync[1].pc = "resynch_loop" /\ sync'[1].pc = "resynch_final"
    \/ ResyncBatchCommits

\* C32 as stated: every iteration of the resync loop strictly increases the
\* cursor and commits it as marker_id.
C32_EveryIterationAdvances ==
    [][ResyncIteration =>
          /\ sync'[1].current_marker > sync[1].current_marker
          /\ task'.marker_id = sync'[1].current_marker]_vars

\* C32 as the code has it: an iteration whose batch query returns no row ends
\* the loop and leaves the cursor; every other iteration strictly increases the
\* cursor and commits it as marker_id, also when no row of the batch differs;
\* and a resync pass that has started leaves the loop.
C32_ResyncAdvancesOrEnds ==
    /\ [][ResyncIteration =>
             IF sync[1].pc = "resynch_loop"
             THEN /\ sync'[1].row_dicts = <<>>
                  /\ sync'[1].current_marker = sync[1].current_marker
                  /\ task' = task
             ELSE /\ sync[1].row_dicts # <<>>
                  /\ sync'[1].current_marker > sync[1].current_marker
                  /\ task'.marker_id = sync'[1].current_marker]_vars
    /\ (sync[1].pc \in ResyncLoopPcs ~> sync[1].pc \notin ResyncLoopPcs)

\* A batch in which no row differed has moved the cursor, the cursor is
\* committed and the loop goes on.
C32_Witness ==
    /\ sync[1].pc = "resynch_loop"
    /\ sync[1].current_marker > 0
    /\ task.marker_id = sync[1].current_marker
    /\ task.records_updated = 0

\* The positions inside the while loop of fetch_remote_batch.
FetchLoopPcs == {"fetch_loop", "fetch_write"}

\* The batch query of an iteration of the while loop of fetch_remote_batch.
FetchQueryRuns == sync[1].pc = "fetch_loop" /\ sync'[1].pc \in {"fetch_write", "fetch_final"}

\* C33: a batch query of fetch_remote_batch is issued only while the cursor is
\* below marker_max_id; a batch of no row or of fewer rows than BATCH_SIZE ends
\* the loop; every batch of rows strictly increases the cursor; and a fetch
\* loop that has started ends.
C33_FetchLoopTerminates ==
    /\ [][/\ FetchQueryRuns =>
                /\ sync[1].current_marker < sync[1].marker_max_id
                /\ sync'[1].row_dicts = <<>> <=> sync'[1].pc = "fetch_final"
                /\ sync'[1].current_marker = sync[1].current_marker
          /\ FetchBatchCommits(1) =>
                LET rows == sync[1].row_dicts
                IN /\ sync'[1].current_marker > sync[1].current_marker
                   /\ Len(rows) < batch_size => sync'[1].pc = "fetch_final"
                   /\ sync'[1].pc = "fetch_loop" =>
                         sync'[1].current_marker < sync[1].marker_max_id]_vars
    /\ (sync[1].pc \in FetchLoopPcs ~> sync[1].pc \notin FetchLoopPcs)

\* A full batch has moved the cursor and the loop goes on below the ceiling.
C33_Witness ==
    /\ sync[1].pc = "fetch_loop"
    /\ sync[1].current_marker > 0
    /\ sync[1].current_marker < sync[1].marker_max_id
    /\ task.marker_id = sync[1].current_marker

\* The task is one that get_next_task selects.
SyncEligible == get_next_task(task) # <<>>

\* C34: under repeated sync invocations against a reachable, unchanging source
\* a task that get_next_task selects eventually is one it no longer selects.
C34_EligibleTaskLeaves == SyncEligible ~> ~SyncEligible

\* The pending items of a task of the queue.
PendingCount(items) == Cardinality({k \in DOMAIN items : items[k].status = "pending"})

\* C35: an AI invocation whose gateway answers lowers the pending count of
\* its task, by at most max_items;
\* and every task in status ai that has a model assigned reaches status export,
\* whatever the state of the tasks before it in the queue.
C35_AiQueueProgress ==
    /\ [][(ai.pc = "called" /\ ai'.pc = "idle") =>
             LET before == PendingCount(task_item[ai.id_task])
                 after == PendingCount(task_item'[ai.id_task])
             IN after < before /\ before - after <= MaxItems]_vars
    /\ \A id \in QueueIds :
          (task[id].status = "ai" /\ task[id].id_ai_model # None)
             ~> (task[id].status = "export")

NamedByResponse(items, k, response) ==
    /\ items[k].id_task = IdTask
    /\ \E j \in DOMAIN response :
          IF IdentifierColumn(response[j]) = "remote_id"
          THEN items[k].remote_id = IdentifierValue(response[j])
          ELSE k = IdentifierValue(response[j])

\* C37: a call of update_task_items_from_json that returns leaves every row
\* unchanged that is not a row of the given task named by the response: the
\* other rows of the task keep their status and fields, and the rows of
\* another task are not touched, also when they carry a remote_id of the
\* response.
C37_ReconcileFrame ==
    [][(JsonCall /\ ai'.error = "") =>
          \A k \in DOMAIN task_item :
             ~NamedByResponse(task_item, k, ai.response) =>
                task_item'[k] = task_item[k]]_vars

\* A call has returned and rewritten a row of the task, a pending row of the
\* task is left, and the rows of the other task with the remote_id of the
\* rewritten row are still as fetched.
C37_Witness ==
    /\ ai.pc = "json_returned"
    /\ ai.error = ""
    /\ \E k \in DOMAIN task_item :
          /\ task_item[k].id_task = IdTask
          /\ task_item[k].status = "changed"
          /\ task_item[k].tokens_input # None
          /\ NamedByResponse(task_item, k, ai.response)
          /\ \E f \in DOMAIN task_item :
                /\ task_item[f].id_task # IdTask
                /\ task_item[f].remote_id = task_item[k].remote_id
          /\ \A f \in DOMAIN task_item :
                task_item[f].id_task # IdTask =>
                   task_item[f] = ForeignItem(task_item[f].remote_id)
    /\ \E k \in DOMAIN task_item :
          /\ task_item[k].id_task = IdTask
          /\ task_item[k].status = "pending"

\* Both sync invocations have ended after rows were fetched.
BothFinished ==
    /\ \A i \in SyncProcs : sync[i].pc = "idle"
    /\ task_item # <<>>

\* C38: with two sync invocations fetching the same task, no committed batch
\* of either lowers marker_id, and once both have ended marker_id is the
\* highest fetched source id and records_fetched is the number of task_item
\* rows of the task.
C38_ConcurrentFetch ==
    /\ [][(\E i \in SyncProcs : FetchBatchCommits(i)) =>
             task'.marker_id >= task.marker_id]_vars
    /\ [](BothFinished =>
             /\ task.marker_id = HighestCommitted(task_item)
             /\ task.records_fetched = Len(task_item))

\* The task_item rows whose text_original a step has rewritten.
RewrittenRows ==
    {k \in DOMAIN task_item : task_item'[k].text_original # task_item[k].text_original}

\* C39: every batch transaction of a resync pass, committed or rolled back,
\* raises records_updated by exactly the number of task_item rows whose
\* text_original it has rewritten.
C39_UpdatedCountsRewritten ==
    [][(sync[1].pc = "resynch_write" /\ sync'[1] # sync[1]) =>
          /\ Len(task_item') = Len(task_item)
          /\ task'.records_updated - task.records_updated = Cardinality(RewrittenRows)]_vars

\* The id_task_item of the pending rows of the given task.
OwnPending(items) ==
    {k \in DOMAIN items : items[k].id_task = IdTask /\ items[k].status = "pending"}

\* C40: the list fetch_pending_task_items returns has at most max_items
\* entries; each is a pending row of the given task with its remote_id and
\* text; the entries are in strictly ascending id_task_item order (so none is
\* repeated); they are the pending rows of the task with the lowest ids, as
\* many as there are up to max_items.  (The loop is evaluated to its end for
\* every table, chunk_size and max_items of the specification.)
C40_PendingItems ==
    ai.pc = "pending_returned" =>
       LET found == ai.table
           pending == OwnPending(task_item)
       IN /\ Len(found) <= ai.max_items
          /\ Len(found) = IF Cardinality(pending) < ai.max_items
                          THEN Cardinality(pending) ELSE ai.max_items
          /\ \A j \in DOMAIN found :
                /\ found[j].id_task_item \in pending
                /\ found[j].remote_id = task_item[found[j].id_task_item].remote_id
                /\ found[j].text_original =
                      task_item[found[j].id_task_item].text_original
          /\ \A j \in 1..(Len(found) - 1) :
                found[j].id_task_item < found[j + 1].id_task_item
          /\ \A k \in pending :
                (\A j \in DOMAIN found : found[j].id_task_item # k) =>
                   \A j \in DOMAIN found : found[j].id_task_item < k

\* A call with a chunk_size below max_items (two passes of the loop) has
\* returned max_items entries out of more pending rows, past a pending row of
\* another task and a reconciled row of the task.
C40_Witness ==
    /\ ai.pc = "pending_returned"
    /\ ai.chunk_size < ai.max_items
    /\ Len(ai.table) = ai.max_items
    /\ Cardinality(OwnPending(task_item)) > ai.max_items
    /\ \E f \in DOMAIN task_item :
          /\ task_item[f].id_task # IdTask
          /\ task_item[f].status = "pending"
          /\ f < ai.table[Len(ai.table)].id_task_item
    /\ \E d \in DOMAIN task_item :
          /\ task_item[d].id_task = IdTask
          /\ task_item[d].status = "changed"
          /\ d < ai.table[Len(ai.table)].id_task_item
====
